---------------------------- MODULE Spec2Model ----------------------------
(***************************************************************************)
(* A model of the skeletal animation and skinning core of the Leoric glTF  *)
(* viewer: joint hierarchy construction (model/joints.rs), animation       *)
(* decoding and keyframe interpolation (model/animation.rs), the playback  *)
(* controls of the GUI (gui.rs) and the per-frame animation and skinning   *)
(* steps of the renderer (renderer.rs).                                    *)
(*                                                                         *)
(* f32 values are modelled as exact rationals <<numerator, denominator>>   *)
(* in lowest terms, with <<0, 0>> standing for NaN.  Matrices are 4x4      *)
(* tuples of rationals.  Results of glam's Quat::slerp, which are not      *)
(* rational, are kept as terms.                                            *)
(***************************************************************************)
EXTENDS Integers, Sequences, FiniteSets, TLC

(***************************************************************************)
(* Rational arithmetic (f32)                                               *)
(***************************************************************************)
Abs(x) == IF x < 0 THEN -x ELSE x

RECURSIVE GCD(_, _)
GCD(a, b) == IF b = 0 THEN a ELSE GCD(b, a % b)

NaN == <<0, 0>>

IsNaN(a) == a[2] = 0

\* n/d in lowest terms with a positive denominator; x/0 is NaN
Rat(n, d) ==
    IF d = 0 THEN NaN
    ELSE IF n = 0 THEN <<0, 1>>
    ELSE LET g == GCD(Abs(n), Abs(d))
             s == IF d < 0 THEN -1 ELSE 1
         IN  <<(s * n) \div g, (s * d) \div g>>

F(n) == <<n, 1>>

RAdd(a, b) ==
    IF a[2] = 1 /\ b[2] = 1 THEN <<a[1] + b[1], 1>>
    ELSE Rat(a[1] * b[2] + b[1] * a[2], a[2] * b[2])

RNeg(a) == <<-a[1], a[2]>>

RSub(a, b) == RAdd(a, RNeg(b))

RMul(a, b) ==
    IF a[2] = 1 /\ b[2] = 1 THEN <<a[1] * b[1], 1>>
    ELSE Rat(a[1] * b[1], a[2] * b[2])

RDiv(a, b) == Rat(a[1] * b[2], a[2] * b[1])

\* IEEE comparisons: every comparison with NaN is false
RLt(a, b) == a[2] # 0 /\ b[2] # 0 /\ a[1] * b[2] < b[1] * a[2]

RLe(a, b) == a[2] # 0 /\ b[2] # 0 /\ a[1] * b[2] <= b[1] * a[2]

RGt(a, b) == RLt(b, a)

\* f32::max: the other operand when one is NaN
RMax(a, b) == IF IsNaN(a) THEN b ELSE IF IsNaN(b) THEN a ELSE IF RLt(a, b) THEN b ELSE a

\* the % of f32: the remainder of the division truncated towards zero
RRem(a, b) ==
    IF IsNaN(a) \/ IsNaN(b) \/ b[1] = 0 THEN NaN
    ELSE LET n == Abs(a[1]) * b[2]
             d == Abs(b[1]) * a[2]
             q == n \div d
             r == Rat(n - q * d, a[2] * b[2])
         IN  IF a[1] < 0 THEN RNeg(r) ELSE r

(***************************************************************************)
(* glam: Vec3, Quat, Mat4                                                  *)
(***************************************************************************)
Vec3(x, y, z) == <<F(x), F(y), F(z)>>

\* Vec3::lerp: self + ((rhs - self) * s)
lerp(start, end, s) ==
    [k \in 1..3 |-> RAdd(start[k], RMul(RSub(end[k], start[k]), s))]

\* A quaternion or a matrix is a record [op, args, num]: op "xyzw" (a
\* quaternion of numbers num) or "mat" (a matrix of numbers num), or a term:
\* the operation op applied to args and the numbers num.
Term(op, args, num) == [op |-> op, args |-> args, num |-> num]

QuatXYZW(x, y, z, w) == Term("xyzw", <<>>, <<F(x), F(y), F(z), F(w)>>)

QuatIdentity == QuatXYZW(0, 0, 0, 1)

IsConcreteQuat(q) == q.op = "xyzw"

\* -q
QuatNeg(q) ==
    IF IsConcreteQuat(q)
    THEN Term("xyzw", <<>>, [k \in 1..4 |-> RNeg(q.num[k])])
    ELSE Term("neg", <<q>>, <<>>)

\* Quat::dot, of quaternions of numbers
QuatDot(a, b) ==
    RAdd(RAdd(RMul(a.num[1], b.num[1]), RMul(a.num[2], b.num[2])),
         RAdd(RMul(a.num[3], b.num[3]), RMul(a.num[4], b.num[4])))

\* the integer square root of a perfect square, 0 when n is none
ISqrt(n) == IF \E r \in 0..n : r * r = n THEN CHOOSE r \in 0..n : r * r = n ELSE 0

\* q * (1 / |q|) for the squared length n2 of q: computed when |q| is
\* rational; 0 * (1 / 0) is NaN
QuatScaled(q, n2) ==
    IF n2[2] = 0 \/ n2[1] = 0
    THEN Term("xyzw", <<>>, [k \in 1..4 |-> NaN])
    ELSE IF ISqrt(n2[1]) = 0 \/ ISqrt(n2[2]) = 0
    THEN Term("normalize", <<q>>, <<>>)
    ELSE Term("xyzw", <<>>,
              [k \in 1..4 |-> RDiv(q.num[k], Rat(ISqrt(n2[1]), ISqrt(n2[2])))])

\* Quat::normalize
QuatNormalize(q) ==
    IF ~IsConcreteQuat(q) THEN Term("normalize", <<q>>, <<>>)
    ELSE QuatScaled(q, QuatDot(q, q))

\* Quat::slerp of two unit quaternions: the point at s of the arc from start
\* to end (not a quaternion of rationals in general: kept as a term)
QuatSlerp(start, end, s) == Term("slerp", <<start, end>>, <<s>>)

Row(a, b, c, d) == <<a, b, c, d>>

Zero == F(0)

One == F(1)

Mat(rows) == Term("mat", <<>>, rows)

MatIdentity ==
    Mat(<<Row(One, Zero, Zero, Zero), Row(Zero, One, Zero, Zero),
          Row(Zero, Zero, One, Zero), Row(Zero, Zero, Zero, One)>>)

\* Mat4::from_translation
MatFromTranslation(t) ==
    Mat(<<Row(One, Zero, Zero, t[1]), Row(Zero, One, Zero, t[2]),
          Row(Zero, Zero, One, t[3]), Row(Zero, Zero, Zero, One)>>)

\* Mat4::from_scale
MatFromScale(s) ==
    Mat(<<Row(s[1], Zero, Zero, Zero), Row(Zero, s[2], Zero, Zero),
          Row(Zero, Zero, s[3], Zero), Row(Zero, Zero, Zero, One)>>)

\* Mat4::from_quat: the rotation matrix of a quaternion; a term for a term
MatFromQuat(q) ==
    IF ~IsConcreteQuat(q) THEN Term("from_quat", <<q>>, <<>>)
    ELSE LET x2 == RAdd(q.num[1], q.num[1])
             y2 == RAdd(q.num[2], q.num[2])
             z2 == RAdd(q.num[3], q.num[3])
             xx == RMul(q.num[1], x2)
             xy == RMul(q.num[1], y2)
             xz == RMul(q.num[1], z2)
             yy == RMul(q.num[2], y2)
             yz == RMul(q.num[2], z2)
             zz == RMul(q.num[3], z2)
             wx == RMul(q.num[4], x2)
             wy == RMul(q.num[4], y2)
             wz == RMul(q.num[4], z2)
         IN  Mat(<<Row(RSub(One, RAdd(yy, zz)), RSub(xy, wz), RAdd(xz, wy), Zero),
                   Row(RAdd(xy, wz), RSub(One, RAdd(xx, zz)), RSub(yz, wx), Zero),
                   Row(RSub(xz, wy), RAdd(yz, wx), RSub(One, RAdd(xx, yy)), Zero),
                   Row(Zero, Zero, Zero, One)>>)

IsNumeric(m) == m.op = "mat"

NumMul(a, b) ==
    [i \in 1..4 |-> [j \in 1..4 |->
        RAdd(RAdd(RMul(a[i][1], b[1][j]), RMul(a[i][2], b[2][j])),
             RAdd(RMul(a[i][3], b[3][j]), RMul(a[i][4], b[4][j])))]]

\* Mat4 * Mat4: computed for matrices of numbers, a product term otherwise
MatMul(a, b) ==
    IF a = MatIdentity THEN b
    ELSE IF b = MatIdentity THEN a
    ELSE IF IsNumeric(a) /\ IsNumeric(b) THEN Mat(NumMul(a.num, b.num))
    ELSE Term("mul", <<a, b>>, <<>>)

\* the translation part of a matrix of numbers
MatTranslation(m) == <<m.num[1][4], m.num[2][4], m.num[3][4]>>

(***************************************************************************)
(* State                                                                   *)
(*                                                                         *)
(* gltf is the imported document: nodes 1..Len(gltf.nodes), node k having  *)
(* glTF index k, its parent gltf.nodes[k].parent (0: a root of the scene), *)
(* its children in ascending order.  One node, gltf.skin_node, carries the *)
(* skin.  An Option<usize> is modelled as 0 for None and i + 1 for         *)
(* Some(i): the joints of the array are numbered from 1.                   *)
(***************************************************************************)
VARIABLES
    gltf,                      \* the document read by gltf::import
    status,                    \* "start", "loaded", "error" (Err) or "panic"
    joints,                    \* Joints.joints of the skinned node
    animations,                \* Animations.animations
    animation_control,         \* Animations.animation_control
    node_animation_transforms, \* Renderer.node_animation_transforms
    joint_matrices,            \* Renderer.joint_transforms.inner.matrices
    world_transforms,          \* the world transforms of the last cascade
    uniform_buffer,            \* the joint matrices written to the uniform buffer
    debug_joints,              \* Gui.debug_joints
    frame_steps,               \* the steps of the last frame, in the order they ran
    now                        \* the reading of the clock, in ticks

vars ==
    <<gltf, status, joints, animations, animation_control,
      node_animation_transforms, joint_matrices, world_transforms, uniform_buffer,
      debug_joints, frame_steps, now>>

None == 0

\* indices of the nodes of the document
NodeIds(doc) == 1..Len(doc.nodes)

\* the increasing sequence of the elements of a set of integers
RECURSIVE SortedSeq(_)
SortedSeq(S) ==
    IF S = {} THEN <<>>
    ELSE LET m == CHOOSE x \in S : \A y \in S : x <= y
         IN  <<m>> \o SortedSeq(S \ {m})

\* scene.nodes() for k = 0, node.children() otherwise
Children(doc, k) == SortedSeq({c \in NodeIds(doc) : doc.nodes[c].parent = k})

(***************************************************************************)
(* model/joints.rs                                                         *)
(***************************************************************************)
\* Vec::contains
Contains(seq, x) == \E i \in 1..Len(seq) : seq[i] = x

\* iter().position(): the first place of x in seq
Position(seq, x) == CHOOSE i \in 1..Len(seq) : seq[i] = x /\ \A j \in 1..(i - 1) : seq[j] # x

\* Joints::get_joint_transform, of a node with a decomposed transform
get_joint_transform(node) ==
    [translation |-> node.translation, rotation |-> node.rotation, scale |-> node.scale]

\* Joint::new
Joint(parent, inverse_bind_matrix, transform, node_index) ==
    [parent |-> parent, inverse_bind_matrix |-> inverse_bind_matrix,
     transform |-> transform, node_index |-> node_index]

\* build_hierarchy taking the index of a joint after it is pushed: the
\* children of a joint are given the next free slot as their parent
RECURSIVE build_hierarchy_index_after_push(_, _, _, _, _)
build_hierarchy_index_after_push(doc, nodes, parent, acc, inverse_bind_matrices) ==
    IF nodes = <<>> \/ acc.panic THEN acc
    ELSE LET index == Head(nodes)
             children == Children(doc, index)
         IN  IF Contains(doc.joint_indices, index)
             THEN LET matrix_index == Position(doc.joint_indices, index)
                  IN  IF matrix_index > Len(inverse_bind_matrices)
                      THEN [acc EXCEPT !.panic = TRUE]
                      ELSE LET pushed ==
                                   [acc EXCEPT !.joints = Append(@,
                                       Joint(parent, inverse_bind_matrices[matrix_index],
                                             get_joint_transform(doc.nodes[index]), index))]
                               joints_index == Len(pushed.joints) + 1
                               sub == build_hierarchy_index_after_push(doc, children,
                                          joints_index, pushed, inverse_bind_matrices)
                           IN  IF parent = None
                               THEN sub
                               ELSE build_hierarchy_index_after_push(doc, Tail(nodes), parent,
                                        sub, inverse_bind_matrices)
             ELSE build_hierarchy_index_after_push(doc, Tail(nodes), parent,
                      build_hierarchy_index_after_push(doc, children, parent, acc,
                                                       inverse_bind_matrices),
                      inverse_bind_matrices)

\* build_hierarchy with a non-joint node breaking the hierarchy: the joints
\* below it are given no parent
RECURSIVE build_hierarchy_gap_breaks(_, _, _, _, _)
build_hierarchy_gap_breaks(doc, nodes, parent, acc, inverse_bind_matrices) ==
    IF nodes = <<>> \/ acc.panic THEN acc
    ELSE LET index == Head(nodes)
             children == Children(doc, index)
         IN  IF Contains(doc.joint_indices, index)
             THEN LET joints_index == Len(acc.joints) + 1
                      matrix_index == Position(doc.joint_indices, index)
                  IN  IF matrix_index > Len(inverse_bind_matrices)
                      THEN [acc EXCEPT !.panic = TRUE]
                      ELSE LET pushed ==
                                   [acc EXCEPT !.joints = Append(@,
                                       Joint(parent, inverse_bind_matrices[matrix_index],
                                             get_joint_transform(doc.nodes[index]), index))]
                               sub == build_hierarchy_gap_breaks(doc, children, joints_index,
                                          pushed, inverse_bind_matrices)
                           IN  IF parent = None
                               THEN sub
                               ELSE build_hierarchy_gap_breaks(doc, Tail(nodes), parent, sub,
                                                               inverse_bind_matrices)
             ELSE build_hierarchy_gap_breaks(doc, Tail(nodes), parent,
                      build_hierarchy_gap_breaks(doc, children, None, acc,
                                                 inverse_bind_matrices),
                      inverse_bind_matrices)

\* build_hierarchy taking a joint's matrix at the joint's place in the
\* traversal-ordered array instead of its place in the skin's joint list
RECURSIVE build_hierarchy_matrix_by_array_index(_, _, _, _, _)
build_hierarchy_matrix_by_array_index(doc, nodes, parent, acc, inverse_bind_matrices) ==
    IF nodes = <<>> \/ acc.panic THEN acc
    ELSE LET index == Head(nodes)
             children == Children(doc, index)
         IN  IF Contains(doc.joint_indices, index)
             THEN LET joints_index == Len(acc.joints) + 1
                      matrix_index == joints_index
                  IN  IF matrix_index > Len(inverse_bind_matrices)
                      THEN [acc EXCEPT !.panic = TRUE]
                      ELSE LET pushed ==
                                   [acc EXCEPT !.joints = Append(@,
                                       Joint(parent, inverse_bind_matrices[matrix_index],
                                             get_joint_transform(doc.nodes[index]), index))]
                               sub == build_hierarchy_matrix_by_array_index(doc, children,
                                          joints_index, pushed, inverse_bind_matrices)
                           IN  IF parent = None
                               THEN sub
                               ELSE build_hierarchy_matrix_by_array_index(doc, Tail(nodes),
                                        parent, sub, inverse_bind_matrices)
             ELSE build_hierarchy_matrix_by_array_index(doc, Tail(nodes), parent,
                      build_hierarchy_matrix_by_array_index(doc, children, parent, acc,
                                                            inverse_bind_matrices),
                      inverse_bind_matrices)

\* Joints::build_hierarchy: acc is [joints, panic], the joints pushed so far
\* and whether an index went out of bounds
RECURSIVE build_hierarchy(_, _, _, _, _)
build_hierarchy(doc, nodes, parent, acc, inverse_bind_matrices) ==
    IF nodes = <<>> \/ acc.panic THEN acc
    ELSE LET index == Head(nodes)
             children == Children(doc, index)
         IN  IF Contains(doc.joint_indices, index)
             THEN LET joints_index == Len(acc.joints) + 1
                      matrix_index == Position(doc.joint_indices, index)
                  IN  IF matrix_index > Len(inverse_bind_matrices)
                      THEN [acc EXCEPT !.panic = TRUE]
                      ELSE LET pushed ==
                                   [acc EXCEPT !.joints = Append(@,
                                       Joint(parent, inverse_bind_matrices[matrix_index],
                                             get_joint_transform(doc.nodes[index]), index))]
                               sub == build_hierarchy(doc, children, joints_index, pushed,
                                                      inverse_bind_matrices)
                           IN  IF parent = None
                               THEN sub
                               ELSE build_hierarchy(doc, Tail(nodes), parent, sub,
                                                    inverse_bind_matrices)
             ELSE build_hierarchy(doc, Tail(nodes), parent,
                      build_hierarchy(doc, children, parent, acc, inverse_bind_matrices),
                      inverse_bind_matrices)

\* Joints::from_gltf
Joints_from_gltf(doc) ==
    LET inverse_bind_matrices ==
            IF doc.inverse_bind_matrices.some THEN doc.inverse_bind_matrices.matrices
            ELSE <<>>
    IN  build_hierarchy(doc, Children(doc, 0), None, [joints |-> <<>>, panic |-> FALSE],
                        inverse_bind_matrices)

(***************************************************************************)
(* model/animation.rs                                                      *)
(***************************************************************************)
\* AnimationControl
Static == [mode |-> "Static", active_animation |-> 0, start_time |-> 0]

Controllable(active_animation) ==
    [mode |-> "Controllable", active_animation |-> active_animation, start_time |-> 0]

Loop(active_animation, start_time) ==
    [mode |-> "Loop", active_animation |-> active_animation, start_time |-> start_time]

\* AnimationTransform
Translation(v) == [kind |-> "Translation", vec |-> v, quat |-> QuatIdentity]

Rotation(q) == [kind |-> "Rotation", vec |-> Vec3(0, 0, 0), quat |-> q]

Scale(v) == [kind |-> "Scale", vec |-> v, quat |-> QuatIdentity]

\* the conversion without the clamp of the signed types at -1
decode_component_unclamped(encoding, s) ==
    CASE encoding = "I8"  -> Rat(s, 127)
      [] encoding = "U8"  -> Rat(s, 255)
      [] encoding = "I16" -> Rat(s, 32767)
      [] encoding = "U16" -> Rat(s, 65535)
      [] OTHER            -> s

\* the int-to-float conversion of one component of an encoded rotation
decode_component(encoding, s) ==
    CASE encoding = "I8"  -> RMax(Rat(s, 127), F(-1))
      [] encoding = "U8"  -> Rat(s, 255)
      [] encoding = "I16" -> RMax(Rat(s, 32767), F(-1))
      [] encoding = "U16" -> Rat(s, 65535)
      [] OTHER            -> s

\* Animation::decode_rotations
decode_rotations(encoding, data) ==
    [kind |-> "Rotations",
     vecs |-> <<>>,
     quats |-> [k \in 1..Len(data) |->
                  Term("xyzw", <<>>, [c \in 1..4 |-> decode_component(encoding, data[k][c])])]]

\* the transforms of a channel, as Animation::from_gltf reads its outputs
read_transforms(outputs) ==
    CASE outputs.kind = "Translations" ->
            [kind |-> "Translations", vecs |-> outputs.data, quats |-> <<>>]
      [] outputs.kind = "Scales" ->
            [kind |-> "Scales", vecs |-> outputs.data, quats |-> <<>>]
      [] OTHER -> decode_rotations(outputs.encoding, outputs.data)

\* Channel::new
Channel(node_index, keyframe_times, transforms, interpolation_type) ==
    [node |-> node_index, keyframe_times |-> keyframe_times,
     transforms |-> transforms, interpolation_type |-> interpolation_type]

\* keyframe_times.last().unwrap_or(&0.)
LastOrZero(keyframe_times) ==
    IF keyframe_times = <<>> THEN Zero ELSE keyframe_times[Len(keyframe_times)]

\* a fold that keeps the last channel's time instead of the greatest
RECURSIVE FoldMax_keeps_latest(_, _)
FoldMax_keeps_latest(channels, a) ==
    IF channels = <<>> THEN a
    ELSE FoldMax_keeps_latest(Tail(channels), LastOrZero(Head(channels).keyframe_times))

\* fold(0f32, |a, b| a.max(b)) over the last keyframe times of the channels
RECURSIVE FoldMax(_, _)
FoldMax(channels, a) ==
    IF channels = <<>> THEN a
    ELSE FoldMax(Tail(channels), RMax(a, LastOrZero(Head(channels).keyframe_times)))

\* the current_time of a freshly loaded animation
InitialCurrentTime == Rat(1, 10)

\* Animation::from_gltf, for one animation of the document
Animation_from_gltf(animation) ==
    LET channels ==
            [k \in 1..Len(animation.channels) |->
                Channel(animation.channels[k].node,
                        animation.channels[k].inputs,
                        read_transforms(animation.channels[k].outputs),
                        animation.channels[k].interpolation)]
    IN  [channels |-> channels,
         current_time |-> InitialCurrentTime,
         end_time |-> FoldMax(channels, Zero)]

\* the outcome of resolving a channel: a transform, or a panic
Resolved(transform) == [panic |-> FALSE, transform |-> transform]

Panicked == [panic |-> TRUE, transform |-> Translation(Vec3(0, 0, 0))]

\* the keyframe values of a channel
Values(transforms) ==
    IF transforms.kind = "Rotations" THEN transforms.quats ELSE transforms.vecs

\* get_fixed_transform without the match on the interpolation type: every
\* channel is read as a linear one
get_fixed_transform_any_mode(channel, index) ==
    IF index > Len(Values(channel.transforms)) THEN Panicked
    ELSE CASE channel.transforms.kind = "Translations" ->
                Resolved(Translation(channel.transforms.vecs[index]))
           [] channel.transforms.kind = "Rotations" ->
                Resolved(Rotation(channel.transforms.quats[index]))
           [] OTHER ->
                Resolved(Scale(channel.transforms.vecs[index]))

\* Channel::get_fixed_transform (index from 1)
get_fixed_transform(channel, index) ==
    IF channel.interpolation_type # "Linear" THEN Panicked
    ELSE IF index > Len(Values(channel.transforms)) THEN Panicked
    ELSE CASE channel.transforms.kind = "Translations" ->
                Resolved(Translation(channel.transforms.vecs[index]))
           [] channel.transforms.kind = "Rotations" ->
                Resolved(Rotation(channel.transforms.quats[index]))
           [] OTHER ->
                Resolved(Scale(channel.transforms.vecs[index]))

\* the rotation branch with >= for >: start is negated only under a
\* negative dot product
interpolate_rotation_nonnegative(rotations, start_index, coeff) ==
    LET start == QuatNormalize(rotations[start_index])
        end == QuatNormalize(rotations[start_index + 1])
        interpolated ==
            IF RLe(Zero, QuatDot(start, end))
            THEN QuatSlerp(start, end, coeff)
            ELSE QuatSlerp(QuatNeg(start), end, coeff)
    IN  QuatNormalize(interpolated)

\* the rotation branch of Channel::interpolate_transforms
interpolate_rotation(rotations, start_index, coeff) ==
    LET start == QuatNormalize(rotations[start_index])
        end == QuatNormalize(rotations[start_index + 1])
        interpolated ==
            IF RGt(QuatDot(start, end), Zero)
            THEN QuatSlerp(start, end, coeff)
            ELSE QuatSlerp(QuatNeg(start), end, coeff)
    IN  QuatNormalize(interpolated)

\* interpolate_transforms with start and end swapped in the lerp
interpolate_transforms_swapped(channel, start_index, coeff) ==
    IF channel.interpolation_type # "Linear" THEN Panicked
    ELSE IF start_index + 1 > Len(Values(channel.transforms)) THEN Panicked
    ELSE CASE channel.transforms.kind = "Translations" ->
                Resolved(Translation(lerp(channel.transforms.vecs[start_index + 1],
                                          channel.transforms.vecs[start_index], coeff)))
           [] channel.transforms.kind = "Rotations" ->
                Resolved(Rotation(interpolate_rotation(channel.transforms.quats,
                                                       start_index, coeff)))
           [] OTHER ->
                Resolved(Scale(lerp(channel.transforms.vecs[start_index + 1],
                                    channel.transforms.vecs[start_index], coeff)))

\* Channel::interpolate_transforms (start_index from 1)
interpolate_transforms(channel, start_index, coeff) ==
    IF channel.interpolation_type # "Linear" THEN Panicked
    ELSE IF start_index + 1 > Len(Values(channel.transforms)) THEN Panicked
    ELSE CASE channel.transforms.kind = "Translations" ->
                Resolved(Translation(lerp(channel.transforms.vecs[start_index],
                                          channel.transforms.vecs[start_index + 1], coeff)))
           [] channel.transforms.kind = "Rotations" ->
                Resolved(Rotation(interpolate_rotation(channel.transforms.quats,
                                                       start_index, coeff)))
           [] OTHER ->
                Resolved(Scale(lerp(channel.transforms.vecs[start_index],
                                    channel.transforms.vecs[start_index + 1], coeff)))

(***************************************************************************)
(* model/transform.rs, model.rs                                            *)
(***************************************************************************)
\* Transform::matrix: T * R * S
matrix(transform) ==
    MatMul(MatMul(MatFromTranslation(transform.translation),
                  MatFromQuat(transform.rotation)),
           MatFromScale(transform.scale))

\* Node.transform as Node::from_gltf sets it; the artificial root (0) has the
\* identity
NodeTransform(doc, k) ==
    IF k = 0 THEN MatIdentity
    ELSE MatMul(MatMul(MatFromTranslation(doc.nodes[k].translation),
                       MatFromQuat(doc.nodes[k].rotation)),
                MatFromScale(doc.nodes[k].scale))

(***************************************************************************)
(* renderer.rs                                                             *)
(***************************************************************************)
\* NodeAnimationTransform::new
NodeAnimationTransform(node, transform) == [node |-> node, transform |-> transform]

\* Instant::duration_since(..).as_secs_f32(): a tick is half a second
as_secs_f32(ticks) == Rat(ticks, 2)

\* what the loop over the keyframes of a channel leaves: nothing, the
\* outcome of get_fixed_transform, or the outcome of interpolate_transforms
\* with the coefficient it was given
NotFound == [found |-> FALSE, res |-> Panicked, interpolated |-> FALSE, coeff |-> Zero]

Fixed(res) == [found |-> TRUE, res |-> res, interpolated |-> FALSE, coeff |-> Zero]

Interpolated(res, coeff) ==
    [found |-> TRUE, res |-> res, interpolated |-> TRUE, coeff |-> coeff]

\* the loop over the keyframes interpolating up to the time of the next
\* keyframe, that time included
RECURSIVE keyframe_loop_closed_interval(_, _, _)
keyframe_loop_closed_interval(channel, current_time, i) ==
    LET keyframe_times == channel.keyframe_times
    IN  IF i > Len(keyframe_times) THEN NotFound
        ELSE LET start_time == keyframe_times[i]
             IN  IF (i = Len(keyframe_times)) \/ (i = 1 /\ RLt(current_time, start_time))
                 THEN Fixed(get_fixed_transform(channel, i))
                 ELSE LET end_time == keyframe_times[i + 1]
                      IN  IF RLe(start_time, current_time) /\ RLe(current_time, end_time)
                          THEN LET coeff == RDiv(RSub(current_time, start_time),
                                                 RSub(end_time, start_time))
                               IN  Interpolated(interpolate_transforms(channel, i, coeff),
                                                coeff)
                          ELSE keyframe_loop_closed_interval(channel, current_time, i + 1)

\* the loop over the keyframes without the test for a time before the first
\* keyframe
RECURSIVE keyframe_loop_no_first_check(_, _, _)
keyframe_loop_no_first_check(channel, current_time, i) ==
    LET keyframe_times == channel.keyframe_times
    IN  IF i > Len(keyframe_times) THEN NotFound
        ELSE LET start_time == keyframe_times[i]
             IN  IF i = Len(keyframe_times)
                 THEN Fixed(get_fixed_transform(channel, i))
                 ELSE LET end_time == keyframe_times[i + 1]
                      IN  IF RLe(start_time, current_time) /\ RGt(end_time, current_time)
                          THEN LET coeff == RDiv(RSub(current_time, start_time),
                                                 RSub(end_time, start_time))
                               IN  Interpolated(interpolate_transforms(channel, i, coeff),
                                                coeff)
                          ELSE keyframe_loop_no_first_check(channel, current_time, i + 1)

\* the loop over the keyframes of one channel in apply_animation, from
\* keyframe i on: nothing, a transform or a panic
RECURSIVE keyframe_loop(_, _, _)
keyframe_loop(channel, current_time, i) ==
    LET keyframe_times == channel.keyframe_times
    IN  IF i > Len(keyframe_times) THEN NotFound
        ELSE LET start_time == keyframe_times[i]
             IN  IF (i = Len(keyframe_times)) \/ (i = 1 /\ RLt(current_time, start_time))
                 THEN Fixed(get_fixed_transform(channel, i))
                 ELSE LET end_time == keyframe_times[i + 1]
                      IN  IF RLe(start_time, current_time) /\ RGt(end_time, current_time)
                          THEN LET coeff == RDiv(RSub(current_time, start_time),
                                                 RSub(end_time, start_time))
                               IN  Interpolated(interpolate_transforms(channel, i, coeff),
                                                coeff)
                          ELSE keyframe_loop(channel, current_time, i + 1)

\* the end of the body of the loop over the channels: the transform r found
\* by the keyframe loop is pushed for the node, a panic ends the frame
push_transform(acc, node, r) ==
    IF ~r.found THEN acc
    ELSE IF r.res.panic THEN [acc EXCEPT !.panic = TRUE]
    ELSE [acc EXCEPT !.nats = Append(@, NodeAnimationTransform(node, r.res.transform))]

\* the loop over the channels in apply_animation: acc is [nats, panic]
RECURSIVE channel_loop(_, _, _)
channel_loop(channels, current_time, acc) ==
    IF channels = <<>> \/ acc.panic THEN acc
    ELSE channel_loop(Tail(channels), current_time,
             push_transform(acc, Head(channels).node,
                            keyframe_loop(Head(channels), current_time, 1)))

\* the playback time taken back by one length of the animation only
looping_time_one_length_back(anim, start_time, clock) ==
    LET since_start == as_secs_f32(clock - start_time)
    IN  IF RGt(since_start, anim.end_time) THEN RSub(since_start, anim.end_time)
        ELSE since_start

\* the playback time of a looping animation
looping_time(anim, start_time, clock) ==
    LET since_start == as_secs_f32(clock - start_time)
    IN  IF RGt(since_start, anim.end_time) THEN RRem(since_start, anim.end_time)
        ELSE since_start

\* what apply_animation leaves: the animations, the node animation
\* transforms and whether it panicked
animated(anims, r) == [animations |-> anims, nats |-> r.nats, panic |-> r.panic]

\* the second half of apply_animation: the channels of the active animation
\* are resolved at its current time
apply_channels(anims, active_animation) ==
    animated(anims, channel_loop(anims[active_animation].channels,
                                 anims[active_animation].current_time,
                                 [nats |-> <<>>, panic |-> FALSE]))

\* apply_animation setting the current time of every animation when looping
apply_animation_every_clip(anims, control, clock) ==
    IF control.mode = "Static"
    THEN [animations |-> anims, nats |-> <<>>, panic |-> FALSE]
    ELSE IF control.active_animation > Len(anims)
    THEN [animations |-> anims, nats |-> <<>>, panic |-> TRUE]
    ELSE apply_channels(
             IF control.mode = "Loop"
             THEN [k \in 1..Len(anims) |->
                      [anims[k] EXCEPT !.current_time =
                          looping_time(anims[control.active_animation],
                                       control.start_time, clock)]]
             ELSE anims,
             control.active_animation)

\* Renderer::apply_animation, entered with node_animation_transforms cleared:
\* the animations, the node animation transforms and whether it panicked
apply_animation(anims, control, clock) ==
    IF control.mode = "Static"
    THEN [animations |-> anims, nats |-> <<>>, panic |-> FALSE]
    ELSE IF control.active_animation > Len(anims)
    THEN [animations |-> anims, nats |-> <<>>, panic |-> TRUE]
    ELSE apply_channels(
             IF control.mode = "Loop"
             THEN [anims EXCEPT ![control.active_animation].current_time =
                      looping_time(anims[control.active_animation], control.start_time, clock)]
             ELSE anims,
             control.active_animation)

\* the loops of apply_joint_transforms writing a scale into the translation
RECURSIVE apply_to_joint_scale_as_translation(_, _)
apply_to_joint_scale_as_translation(joint, nats) ==
    IF nats = <<>> THEN joint
    ELSE LET nat == Head(nats)
             next ==
                 IF joint.node_index # nat.node THEN joint
                 ELSE CASE nat.transform.kind = "Rotation" ->
                             [joint EXCEPT !.transform.rotation = nat.transform.quat]
                        [] OTHER ->
                             [joint EXCEPT !.transform.translation = nat.transform.vec]
         IN  apply_to_joint_scale_as_translation(next, Tail(nats))

\* the body of the loops of apply_joint_transforms for one joint
RECURSIVE apply_to_joint(_, _)
apply_to_joint(joint, nats) ==
    IF nats = <<>> THEN joint
    ELSE LET nat == Head(nats)
             next ==
                 IF joint.node_index # nat.node THEN joint
                 ELSE CASE nat.transform.kind = "Translation" ->
                             [joint EXCEPT !.transform.translation = nat.transform.vec]
                        [] nat.transform.kind = "Rotation" ->
                             [joint EXCEPT !.transform.rotation = nat.transform.quat]
                        [] OTHER ->
                             [joint EXCEPT !.transform.scale = nat.transform.vec]
         IN  apply_to_joint(next, Tail(nats))

\* Renderer::apply_joint_transforms
apply_joint_transforms(js, nats) == [i \in 1..Len(js) |-> apply_to_joint(js[i], nats)]

\* cascade with the product the other way round: local * world[parent]
RECURSIVE cascade_local_first(_, _, _, _)
cascade_local_first(js, outer_transform, world, i) ==
    IF i > Len(js) THEN world
    ELSE LET transform ==
                 IF js[i].parent # None
                 THEN MatMul(matrix(js[i].transform), world[js[i].parent])
                 ELSE MatMul(outer_transform, matrix(js[i].transform))
         IN  cascade_local_first(js, outer_transform, [world EXCEPT ![i] = transform], i + 1)

\* the body of the loop of recalc_skin_matrices for joint i, on the vector
\* world_transforms
cascade_step(js, outer_transform, world, i) ==
    LET transform ==
            IF js[i].parent # None
            THEN MatMul(world[js[i].parent], matrix(js[i].transform))
            ELSE MatMul(outer_transform, matrix(js[i].transform))
    IN  [world EXCEPT ![i] = transform]

\* the loop over the joints from..to in array order: the first half of the
\* range, then the second half on the vector the first half leaves
RECURSIVE cascade_range(_, _, _, _, _)
cascade_range(js, outer_transform, world, from, to) ==
    IF from > to THEN world
    ELSE IF from = to THEN cascade_step(js, outer_transform, world, from)
    ELSE LET middle == (from + to) \div 2
             first == cascade_range(js, outer_transform, world, from, middle)
         IN  IF Len(first) = Len(world)
             THEN cascade_range(js, outer_transform, first, middle + 1, to)
             ELSE first

\* the loop of recalc_skin_matrices over the joints in array order, from joint
\* i on, on the vector world_transforms
cascade(js, outer_transform, world, i) ==
    cascade_range(js, outer_transform, world, i, Len(js))

MAX_JOINT_TRANSFORMS == 256

\* gl::BufferSubData at offset 0 of the uniform buffer, whose slots are known
\* as far as they were ever written: the data replaces the first slots, the
\* slots after them keep what they held
BufferSubData(buffer, data) == data \o SubSeq(buffer, Len(data) + 1, Len(buffer))

\* update that leaves out the joint matrices over the maximum
update_truncating(js, world) ==
    [joints |-> js, world_transforms |-> world,
     joint_matrices |->
         [i \in 1..(IF Len(js) > MAX_JOINT_TRANSFORMS THEN MAX_JOINT_TRANSFORMS ELSE Len(js)) |->
             MatMul(world[i], js[i].inverse_bind_matrix)],
     panic |-> FALSE]

\* JointTransforms::update after the loop that fills the joint matrices:
\* world[i] * inverse_bind_matrix for every joint
update(js, world) ==
    [joints |-> js, world_transforms |-> world,
     joint_matrices |-> [i \in 1..Len(js) |-> MatMul(world[i], js[i].inverse_bind_matrix)],
     panic |-> Len(js) > MAX_JOINT_TRANSFORMS]

\* recalc_skin_matrices once the animated transforms are applied
skin_matrices(js, outer_transform) ==
    update(js, cascade(js, outer_transform, [i \in 1..Len(js) |-> MatIdentity], 1))

\* Renderer::recalc_skin_matrices with JointTransforms::update
recalc_skin_matrices(js, outer_transform, nats) ==
    skin_matrices(apply_joint_transforms(js, nats), outer_transform)

\* next_level_transform of render_node at node k, render having started at
\* the root with its own transform
RECURSIVE next_level_transform(_, _)
next_level_transform(doc, k) ==
    IF k = 0 THEN MatMul(NodeTransform(doc, 0), NodeTransform(doc, 0))
    ELSE MatMul(next_level_transform(doc, doc.nodes[k].parent), NodeTransform(doc, k))

\* the outer_transform render_node hands to recalc_skin_matrices at the
\* skinned node k
skinning_transform(doc, k) == next_level_transform(doc, k)

\* a step of a frame: what ran, and at which node of the scene (0 when the
\* step is not of a node)
Step(call, node) == [call |-> call, node |-> node]

\* the steps of apply_animation: the playback time is resolved, then the
\* channels of the active clip are interpolated; none when the control is
\* Static
apply_animation_steps(anims, control, a) ==
    IF control.mode = "Static" \/ control.active_animation > Len(anims) THEN <<>>
    ELSE IF a.panic THEN <<Step("resolve_time", 0)>>
    ELSE <<Step("resolve_time", 0), Step("interpolate", 0)>>

\* the steps of recalc_skin_matrices at node k, the skin having n joints:
\* the local transforms are rewritten, the world transforms cascaded, the
\* joints drawn as points when debug_joints is set, the skin matrices
\* uploaded
recalc_skin_matrices_steps(k, n, debug) ==
    <<Step("apply_joint_transforms", k), Step("cascade", k)>>
        \o (IF debug THEN [i \in 1..n |-> Step("DrawArrays", k)] ELSE <<>>)
        \o <<Step("update", k)>>

\* the steps of render_mesh at node k: a draw call for each primitive
render_mesh_steps(doc, k) ==
    [i \in 1..Len(doc.meshes[k]) |-> Step("DrawElements", k)]

\* render_node drawing the mesh of a node before it recalculates its skin
RECURSIVE render_node_mesh_first(_, _, _, _)
render_node_mesh_first(doc, nodes, n, debug) ==
    IF nodes = <<>> THEN <<>>
    ELSE LET k == Head(nodes)
         IN  (IF k \in DOMAIN doc.meshes THEN render_mesh_steps(doc, k) ELSE <<>>)
                 \o (IF k = doc.skin_node THEN recalc_skin_matrices_steps(k, n, debug)
                     ELSE <<>>)
                 \o render_node_mesh_first(doc, Children(doc, k), n, debug)
                 \o render_node_mesh_first(doc, Tail(nodes), n, debug)

\* the steps of render_node over the nodes of one level and all below them:
\* at each node the skin, then the mesh, then the children
RECURSIVE render_node(_, _, _, _)
render_node(doc, nodes, n, debug) ==
    IF nodes = <<>> THEN <<>>
    ELSE LET k == Head(nodes)
         IN  (IF k = doc.skin_node THEN recalc_skin_matrices_steps(k, n, debug)
              ELSE <<>>)
                 \o (IF k \in DOMAIN doc.meshes THEN render_mesh_steps(doc, k) ELSE <<>>)
                 \o render_node(doc, Children(doc, k), n, debug)
                 \o render_node(doc, Tail(nodes), n, debug)

\* the steps that ran before the upload of the skin matrices
BeforeUpdate(steps) ==
    LET i == CHOOSE i \in 1..Len(steps) :
                 /\ steps[i].call = "update"
                 /\ \A j \in 1..(i - 1) : steps[j].call # "update"
    IN  SubSeq(steps, 1, i - 1)

\* the steps of Renderer::render, a being the result of apply_animation and
\* r that of recalc_skin_matrices: a panic ends the frame where it happens
steps_of_frame(a, r) ==
    LET animation_steps == apply_animation_steps(animations, animation_control, a)
        node_steps == render_node(gltf, Children(gltf, 0), Len(joints), debug_joints)
    IN  IF a.panic THEN animation_steps
        ELSE IF r.panic THEN animation_steps \o BeforeUpdate(node_steps)
        ELSE animation_steps \o node_steps

(***************************************************************************)
(* Actions                                                                 *)
(***************************************************************************)
\* a primitive of the document: its topology, whether it has positions,
\* indices and normals, the number of its sets of texture coordinates, and
\* the component type of its joint weights ("None" without skinning data)
GltfPrimitive(mode, positions, indices, normals, tex_coords, weights) ==
    [mode |-> mode, positions |-> positions, indices |-> indices, normals |-> normals,
     tex_coords |-> tex_coords, weights |-> weights]

\* a well-formed primitive
Triangles == GltfPrimitive("Triangles", TRUE, TRUE, TRUE, 1, "None")

\* the sets of texture coordinates the while loop of Primitive::from_gltf
\* reads: set 0 when there is one, then the loop breaks
texcoords(primitive) == IF primitive.tex_coords > 0 THEN {0} ELSE {}

\* Primitive::from_gltf: "Ok", "Err" or "panic"
Primitive_from_gltf(primitive) ==
    IF primitive.mode # "Triangles" THEN "Err"
    ELSE IF ~primitive.positions THEN "Err"
    ELSE IF ~primitive.indices THEN "Err"
    ELSE IF ~primitive.normals THEN "Err"
    ELSE IF primitive.weights \in {"U8", "U16"} THEN "panic"
    ELSE "Ok"

\* Mesh::from_gltf: the primitives in order, up to the first that fails
RECURSIVE Mesh_from_gltf(_)
Mesh_from_gltf(primitives) ==
    IF primitives = <<>> THEN "Ok"
    ELSE IF Primitive_from_gltf(Head(primitives)) # "Ok"
    THEN Primitive_from_gltf(Head(primitives))
    ELSE Mesh_from_gltf(Tail(primitives))

\* Node::from_gltf over the nodes of one level: of each node the children,
\* then the mesh, then the skin, skin_panic telling whether Joints::from_gltf
\* panics; up to the first failure
RECURSIVE Node_from_gltf(_, _, _)
Node_from_gltf(doc, nodes, skin_panic) ==
    IF nodes = <<>> THEN "Ok"
    ELSE LET k == Head(nodes)
             children == Node_from_gltf(doc, Children(doc, k), skin_panic)
             mesh == IF k \in DOMAIN doc.meshes THEN Mesh_from_gltf(doc.meshes[k])
                     ELSE "Ok"
         IN  IF children # "Ok" THEN children
             ELSE IF mesh # "Ok" THEN mesh
             ELSE IF k = doc.skin_node /\ skin_panic THEN "panic"
             ELSE Node_from_gltf(doc, Tail(nodes), skin_panic)

\* Model::from_gltf: the scene count, the nodes with their meshes and the
\* joints of the skin, then the animations
LoadModel ==
    /\ status = "start"
    /\ LET built == Joints_from_gltf(gltf)
           nodes == Node_from_gltf(gltf, Children(gltf, 0), built.panic)
       IN  IF gltf.scenes # 1 \/ nodes = "Err"
           THEN /\ status' = "error"
                /\ UNCHANGED <<joints, animations, animation_control>>
           ELSE IF nodes = "panic"
           THEN /\ status' = "panic"
                /\ UNCHANGED <<joints, animations, animation_control>>
           ELSE /\ status' = "loaded"
                /\ joints' = built.joints
                /\ animations' = [k \in 1..Len(gltf.animations) |->
                                     Animation_from_gltf(gltf.animations[k])]
                /\ animation_control' = Static
    /\ UNCHANGED <<gltf, node_animation_transforms, joint_matrices, world_transforms,
                   uniform_buffer, debug_joints, frame_steps, now>>

\* a frame that pushes the joint matrices without clearing the vector first
frame_without_clear(a, r) ==
    /\ animations' = a.animations
    /\ node_animation_transforms' = a.nats
    /\ frame_steps' = steps_of_frame(a, r)
    /\ IF a.panic
       THEN /\ status' = "panic"
            /\ UNCHANGED <<joints, joint_matrices, world_transforms, uniform_buffer>>
       ELSE /\ joints' = r.joints
            /\ world_transforms' = r.world_transforms
            /\ joint_matrices' = joint_matrices \o r.joint_matrices
            /\ uniform_buffer' = IF r.panic THEN uniform_buffer
                                 ELSE BufferSubData(uniform_buffer, joint_matrices')
            /\ status' = IF r.panic THEN "panic" ELSE "loaded"

\* the state a frame leaves, a being the result of apply_animation and r
\* that of recalc_skin_matrices
frame(a, r) ==
    /\ animations' = a.animations
    /\ node_animation_transforms' = a.nats
    /\ frame_steps' = steps_of_frame(a, r)
    /\ IF a.panic
       THEN /\ status' = "panic"
            /\ UNCHANGED <<joints, joint_matrices, world_transforms, uniform_buffer>>
       ELSE /\ joints' = r.joints
            /\ world_transforms' = r.world_transforms
            /\ joint_matrices' = r.joint_matrices
            /\ uniform_buffer' = IF r.panic THEN uniform_buffer
                                 ELSE BufferSubData(uniform_buffer, r.joint_matrices)
            /\ status' = IF r.panic THEN "panic" ELSE "loaded"

\* Renderer::render after apply_animation: render_node reaches the skinned
\* node and recalculates its skin matrices
render(a) ==
    frame(a, recalc_skin_matrices(joints, skinning_transform(gltf, gltf.skin_node), a.nats))

\* Renderer::render: apply_animation, then render_node down to the skinned
\* node, whose skin matrices are recalculated
Render ==
    /\ status = "loaded"
    /\ render(apply_animation(animations, animation_control, now))
    /\ UNCHANGED <<gltf, animation_control, debug_joints, now>>

(***************************************************************************)
(* Documents                                                               *)
(***************************************************************************)
MaxNodes == 4

\* a node of the document, with a decomposed transform
Node(parent, translation, rotation, scale) ==
    [parent |-> parent, translation |-> translation, rotation |-> rotation, scale |-> scale]

\* the parent maps of the scenes of n nodes
Forests(n) == {p \in [1..n -> 0..(n - 1)] : \A k \in 1..n : p[k] < k}

Reverse(seq) == [k \in 1..Len(seq) |-> seq[Len(seq) + 1 - k]]

\* the declared joint lists of a skin over the nodes 1..n: every set of
\* nodes, in increasing and in decreasing order
JointLists(n) ==
    {SortedSeq(S) : S \in SUBSET (1..n)} \cup {Reverse(SortedSeq(S)) : S \in SUBSET (1..n)}

\* an inverse bind matrix that tells its place k in the skin
BindMatrix(k) == MatFromTranslation(Vec3(0, 0, -k))

NoMatrices == [some |-> FALSE, matrices |-> <<>>]

SomeMatrices(ms) == [some |-> TRUE, matrices |-> ms]

Document(nodes, skin_node, joint_indices, inverse_bind_matrices, anims) ==
    [scenes |-> 1, nodes |-> nodes, skin_node |-> skin_node,
     joint_indices |-> joint_indices, inverse_bind_matrices |-> inverse_bind_matrices,
     animations |-> anims, meshes |-> <<>>]

\* the documents of the joint hierarchy checks: every scene of MaxNodes nodes,
\* node k translated by (k, 0, 0), with every joint list, the skin with its
\* inverse bind matrices or with none
JointDocuments ==
    {Document([k \in 1..MaxNodes |-> Node(p[k], Vec3(k, 0, 0), QuatIdentity, Vec3(1, 1, 1))],
              MaxNodes, ji,
              IF ibm THEN SomeMatrices([k \in 1..Len(ji) |-> BindMatrix(k)]) ELSE NoMatrices,
              <<>>) :
        p \in Forests(MaxNodes), ji \in JointLists(MaxNodes), ibm \in BOOLEAN}

Start ==
    /\ status = "start"
    /\ joints = <<>>
    /\ animations = <<>>
    /\ animation_control = Static
    /\ node_animation_transforms = <<>>
    /\ joint_matrices = <<>>
    /\ uniform_buffer = <<>>
    /\ world_transforms = <<>>
    /\ debug_joints = TRUE
    /\ frame_steps = <<>>
    /\ now = 0

InitJoints == gltf \in JointDocuments /\ Start

NextJoints == LoadModel

SpecJoints == InitJoints /\ [][NextJoints]_vars

(***************************************************************************)
(* Joint hierarchy                                                         *)
(***************************************************************************)
IsJointNode(doc, n) == \E i \in 1..Len(doc.joint_indices) : doc.joint_indices[i] = n

\* the proper ancestors of node n in the scene
RECURSIVE Ancestors(_, _)
Ancestors(doc, n) ==
    IF doc.nodes[n].parent = 0 THEN {}
    ELSE {doc.nodes[n].parent} \cup Ancestors(doc, doc.nodes[n].parent)

\* the nearest proper ancestor of n that is a joint node, 0 when there is none
RECURSIVE NearestJointAncestor(_, _)
NearestJointAncestor(doc, n) ==
    LET up == doc.nodes[n].parent
    IN  IF up = 0 THEN 0
        ELSE IF IsJointNode(doc, up) THEN up
        ELSE NearestJointAncestor(doc, up)

\* the depth-first pre-order of the subtrees of a list of nodes
RECURSIVE PreOrder(_, _)
PreOrder(doc, nodes) ==
    IF nodes = <<>> THEN <<>>
    ELSE <<Head(nodes)>> \o PreOrder(doc, Children(doc, Head(nodes)))
                         \o PreOrder(doc, Tail(nodes))

\* the place of node n in the pre-order of the scene
PreIndex(doc, n) ==
    LET order == PreOrder(doc, Children(doc, 0))
    IN  CHOOSE i \in 1..Len(order) : order[i] = n

\* the array index of the joint made from node n, 0 when there is none
JointOf(n) ==
    IF \E k \in 1..Len(joints) : joints[k].node_index = n
    THEN CHOOSE k \in 1..Len(joints) : joints[k].node_index = n
    ELSE 0

\* C1: in every joint array built by Joints::from_gltf, a joint's parent
\* index, when there is one, is the index of a joint emitted strictly
\* before it.
C1_ParentBeforeChild ==
    status = "loaded" =>
        \A k \in 1..Len(joints) :
            joints[k].parent # None => (joints[k].parent >= 1 /\ joints[k].parent < k)

\* a loaded hierarchy where a joint's parent is not the joint just before it
C1_Witness ==
    /\ status = "loaded"
    /\ \E k \in 1..Len(joints) : joints[k].parent # None /\ joints[k].parent < k - 1

\* C2: the joint array lists joint nodes, each once, in the depth-first
\* pre-order of the scene; every joint node below a listed joint is listed;
\* a joint's parent is the array index of its nearest proper scene ancestor
\* that is a joint node (None when no ancestor is one), whatever non-joint
\* nodes lie between the two.
C2_PreOrderNearestAncestor ==
    status = "loaded" =>
        /\ \A k \in 1..Len(joints) : IsJointNode(gltf, joints[k].node_index)
        /\ \A j, k \in 1..Len(joints) :
               j < k => PreIndex(gltf, joints[j].node_index) < PreIndex(gltf, joints[k].node_index)
        /\ \A k \in 1..Len(joints) :
               joints[k].parent = JointOf(NearestJointAncestor(gltf, joints[k].node_index))
        /\ \A k \in 1..Len(joints) :
               (NearestJointAncestor(gltf, joints[k].node_index) = 0) = (joints[k].parent = None)
        /\ \A n \in NodeIds(gltf) :
               (IsJointNode(gltf, n) /\ \E a \in Ancestors(gltf, n) : JointOf(a) # 0)
                   => JointOf(n) # 0

\* a loaded hierarchy with a joint under a non-joint node whose parent joint
\* lies above that node
C2_Witness ==
    /\ status = "loaded"
    /\ \E k \in 1..Len(joints) :
           /\ joints[k].parent # None
           /\ ~IsJointNode(gltf, gltf.nodes[joints[k].node_index].parent)
           /\ joints[joints[k].parent].node_index
                  = gltf.nodes[gltf.nodes[joints[k].node_index].parent].parent

(***************************************************************************)
(* Skinning                                                                *)
(***************************************************************************)
MaxSkinNodes == 3

\* the transforms given to the nodes of the skinning checks
NodeTransforms ==
    <<[translation |-> Vec3(0, 0, 0), rotation |-> QuatIdentity, scale |-> Vec3(1, 1, 1)],
      [translation |-> Vec3(1, 0, 0), rotation |-> QuatIdentity, scale |-> Vec3(1, 1, 1)],
      [translation |-> Vec3(0, 1, 0), rotation |-> QuatIdentity, scale |-> Vec3(1, 1, 1)],
      [translation |-> Vec3(0, 0, 1), rotation |-> QuatXYZW(0, 0, 1, 0), scale |-> Vec3(2, 3, 1)]>>

\* the documents of the skinning checks: every scene of MaxSkinNodes nodes,
\* the transforms handed out in turn from a starting place, every set of
\* joints, the skin on any node, and identity or distinct inverse bind matrices
SkinDocuments ==
    {Document([k \in 1..MaxSkinNodes |->
                  LET t == NodeTransforms[((k + shift) % Len(NodeTransforms)) + 1]
                  IN  Node(p[k], t.translation, t.rotation, t.scale)],
              skin_node, ji,
              SomeMatrices([k \in 1..Len(ji) |-> IF distinct THEN BindMatrix(k) ELSE MatIdentity]),
              <<>>) :
        p \in Forests(MaxSkinNodes), shift \in 0..(Len(NodeTransforms) - 1),
        ji \in JointLists(MaxSkinNodes), skin_node \in 1..MaxSkinNodes,
        distinct \in BOOLEAN}

InitSkin == gltf \in SkinDocuments /\ Start

NextSkin == LoadModel \/ Render

SpecSkin == InitSkin /\ [][NextSkin]_vars

\* a frame has been rendered: the cascade has run over the joints
Rendered == status = "loaded" /\ Len(world_transforms) = Len(joints) /\ joints # <<>>

\* T * R * S of a joint
LocalMatrix(joint) ==
    MatMul(MatFromTranslation(joint.transform.translation),
           MatMul(MatFromQuat(joint.transform.rotation),
                  MatFromScale(joint.transform.scale)))

\* the world transform of joint i by its chain of parents, under outer
RECURSIVE WorldOf(_, _)
WorldOf(outer, i) ==
    IF joints[i].parent = None THEN MatMul(outer, LocalMatrix(joints[i]))
    ELSE MatMul(WorldOf(outer, joints[i].parent), LocalMatrix(joints[i]))

IsTranslationBy(transform, v) ==
    /\ transform.translation = v
    /\ transform.rotation = QuatIdentity
    /\ transform.scale = Vec3(1, 1, 1)

\* a root joint translated by (1, 0, 0) with child c translated by (0, 1, 0),
\* under the identity
CascadeCase(c) ==
    /\ skinning_transform(gltf, gltf.skin_node) = MatIdentity
    /\ joints[c].parent # None
    /\ joints[joints[c].parent].parent = None
    /\ IsTranslationBy(joints[joints[c].parent].transform, Vec3(1, 0, 0))
    /\ IsTranslationBy(joints[c].transform, Vec3(0, 1, 0))

\* a single joint, everything the identity
IdentityCase ==
    /\ skinning_transform(gltf, gltf.skin_node) = MatIdentity
    /\ Len(joints) = 1
    /\ IsTranslationBy(joints[1].transform, Vec3(0, 0, 0))
    /\ joints[1].inverse_bind_matrix = MatIdentity

\* C3: after recalc_skin_matrices, world[i] = world[parent[i]] * local(i) for
\* a joint with a parent and outer_transform * local(i) for one without, with
\* local = T * R * S, and skin[i] = world[i] * inverse_bind_matrix[i]; a root
\* translated by (1,0,0) gives its child translated by (0,1,0) the world
\* translation (1,1,0), and a single identity joint under the identity gives
\* [identity].
C3_Cascade ==
    Rendered =>
        LET outer == skinning_transform(gltf, gltf.skin_node)
        IN  /\ Len(joint_matrices) = Len(joints)
            /\ \A i \in 1..Len(joints) :
                   /\ world_transforms[i] = WorldOf(outer, i)
                   /\ joint_matrices[i] = MatMul(WorldOf(outer, i), joints[i].inverse_bind_matrix)
                   /\ CascadeCase(i) => MatTranslation(world_transforms[i]) = Vec3(1, 1, 0)
            /\ IdentityCase => joint_matrices = <<MatIdentity>>

\* a rendered frame of the cascade case, with distinct inverse bind matrices
C3_Witness ==
    /\ Rendered
    /\ \E c \in 1..Len(joints) :
           CascadeCase(c) /\ joints[c].inverse_bind_matrix # MatIdentity

\* the product of the transforms of the proper ancestors of node k
RECURSIVE AncestorsTransform(_, _)
AncestorsTransform(doc, k) ==
    IF doc.nodes[k].parent = 0 THEN MatIdentity
    ELSE MatMul(AncestorsTransform(doc, doc.nodes[k].parent),
                NodeTransform(doc, doc.nodes[k].parent))

\* C4: the outer_transform handed to skinning is the product of the
\* transforms of the ancestors of the skinned node and leaves out the node's
\* own transform: the skin matrices are those of the cascade under the
\* ancestors' product, whatever the skinned node's own transform is.
C4_OuterExcludesSkinnedNode ==
    Rendered =>
        \A i \in 1..Len(joints) :
            joint_matrices[i] =
                MatMul(WorldOf(AncestorsTransform(gltf, gltf.skin_node), i),
                       joints[i].inverse_bind_matrix)


(***************************************************************************)
(* gui.rs: the animation view, and the clock                               *)
(***************************************************************************)
MaxNow == 3

SliderSteps == 4

\* the positions of the slider of an animation: 0.0..=end_time, by halves
SliderTimes(animation) ==
    {Rat(k, 2) : k \in {j \in 0..SliderSteps : RLe(Rat(j, 2), animation.end_time)}}

\* Play pressed on clip i with the control reading the clock: Loop with
\* the control of the previous clip kept
press_play_stale_clip(control, i, clock) ==
    CASE control.mode = "Static" -> Loop(i, clock)
      [] control.mode = "Controllable" -> Loop(control.active_animation, clock)
      [] OTHER -> Controllable(i)

\* Play taking the clips as counted from one in a vector indexed from zero:
\* the clip after the one whose button was pressed
press_play_next_clip(control, i, clock) ==
    CASE control.mode \in {"Static", "Controllable"} -> Loop(i + 1, clock)
      [] OTHER -> Controllable(i + 1)

\* the match on animation_control when the Play button of clip i is clicked
press_play(control, i, clock) ==
    CASE control.mode \in {"Static", "Controllable"} -> Loop(i, clock)
      [] OTHER -> Controllable(i)

\* show_animation_view: the Play button of clip i is clicked
PressPlay(i) ==
    /\ status = "loaded"
    /\ i \in 1..Len(animations)
    /\ animation_control' = press_play(animation_control, i, now)
    /\ UNCHANGED <<gltf, status, joints, animations, node_animation_transforms,
                   joint_matrices, world_transforms, uniform_buffer,
                   debug_joints, frame_steps, now>>

\* the slider that leaves a looping clip looping
scrub_slider_keeps_loop(control, i) ==
    IF control.mode = "Loop" THEN control ELSE Controllable(i)

\* the assignment to animation_control when the slider of clip i responds
scrub_slider(control, i) == Controllable(i)

\* show_animation_view: the slider of clip i is clicked or dragged to t
ScrubSlider(i, t) ==
    /\ status = "loaded"
    /\ i \in 1..Len(animations)
    /\ t \in SliderTimes(animations[i]) \cup {animations[i].current_time}
    /\ animations' = [animations EXCEPT ![i].current_time = t]
    /\ animation_control' = scrub_slider(animation_control, i)
    /\ UNCHANGED <<gltf, status, joints, node_animation_transforms,
                   joint_matrices, world_transforms, uniform_buffer,
                   debug_joints, frame_steps, now>>

\* time passes: Instant::now() reads one tick more
Advance ==
    /\ now < MaxNow
    /\ now' = now + 1
    /\ UNCHANGED <<gltf, status, joints, animations, animation_control,
                   node_animation_transforms, joint_matrices, world_transforms, uniform_buffer,
                   debug_joints, frame_steps>>


(***************************************************************************)
(* Documents with animations                                               *)
(*                                                                         *)
(* The scene: node 1 carries the skin, node 2 (a child of 1) and node 3 (a *)
(* child of 2) are its joints.                                             *)
(***************************************************************************)
PlayerNodes ==
    <<Node(0, Vec3(0, 0, 0), QuatIdentity, Vec3(1, 1, 1)),
      Node(1, Vec3(1, 0, 0), QuatIdentity, Vec3(1, 1, 1)),
      Node(2, Vec3(0, 1, 0), QuatIdentity, Vec3(1, 1, 1))>>

\* a channel of the document: the target node, the input accessor (the
\* keyframe times), the output accessor and the interpolation of the sampler
GltfChannel(node, inputs, kind, encoding, data, interpolation) ==
    [node |-> node, inputs |-> inputs,
     outputs |-> [kind |-> kind, encoding |-> encoding, data |-> data],
     interpolation |-> interpolation]

\* translations of node 2 at 0, 1 and 2 seconds
TranslationChannel(interpolation) ==
    GltfChannel(2, <<F(0), F(1), F(2)>>, "Translations", "F32",
                <<Vec3(0, 0, 0), Vec3(1, 0, 0), Vec3(1, 1, 0)>>, interpolation)

\* scales of node 3, the first keyframe a second after the start
ScaleChannel ==
    GltfChannel(3, <<F(1), F(2)>>, "Scales", "F32",
                <<Vec3(1, 1, 1), Vec3(2, 3, 1)>>, "Linear")

\* a single keyframe, half a second after the start
SingleKeyframeChannel ==
    GltfChannel(3, <<Rat(1, 2)>>, "Translations", "F32", <<Vec3(0, 0, 2)>>, "Linear")

\* pairs of rotation keyframes as float quaternions, unit or not: with
\* positive, zero and negative dot products, and one of length zero
QuatPairs ==
    {<<<<F(1), F(1), F(1), F(1)>>, <<F(0), F(0), F(0), F(2)>>>>,
     <<<<F(0), F(0), F(0), F(1)>>, <<F(1), F(0), F(0), F(0)>>>>,
     <<<<F(1), F(1), F(1), F(1)>>, <<F(1), F(-1), F(1), F(-1)>>>>,
     <<<<F(1), F(1), F(1), F(1)>>, <<F(0), F(0), F(-3), F(0)>>>>,
     <<<<F(0), F(0), F(0), F(0)>>, <<F(0), F(0), F(0), F(1)>>>>}

\* rotations of node 3 at 0 and 2 seconds
RotationChannel(encoding, pair, interpolation) ==
    GltfChannel(3, <<F(0), F(2)>>, "Rotations", encoding, pair, interpolation)

\* the same as normalized signed bytes: opposite rotations
BytePairs == {<<<<127, 0, 0, 0>>, <<-128, 0, 0, 0>>>>}

RotationChannels ==
    {RotationChannel("F32", pair, "Linear") : pair \in QuatPairs}
        \cup {RotationChannel("I8", pair, "Linear") : pair \in BytePairs}

UnsupportedChannels ==
    {TranslationChannel("Step"),
     RotationChannel("F32", <<<<F(0), F(0), F(0), F(1)>>, <<F(1), F(0), F(0), F(0)>>>>,
                     "CubicSpline"),
     GltfChannel(3, <<F(1)>>, "Scales", "F32", <<Vec3(2, 2, 2)>>, "CubicSpline")}

\* the animations of the documents: a channel alone, or the translations of
\* node 2 before or after another channel
GltfAnimations ==
    LET others == {ScaleChannel, SingleKeyframeChannel} \cup RotationChannels
                      \cup UnsupportedChannels
    IN  {[channels |-> <<TranslationChannel("Linear")>>]}
            \cup {[channels |-> <<c>>] : c \in others}
            \cup {[channels |-> <<TranslationChannel("Linear"), c>>] :
                     c \in {ScaleChannel, SingleKeyframeChannel} \cup UnsupportedChannels}
            \cup {[channels |-> <<c, TranslationChannel("Linear")>>] :
                     c \in {ScaleChannel, TranslationChannel("Step")}}
            \cup {[channels |-> <<SingleKeyframeChannel, ScaleChannel>>]}

\* documents of one animation, and one of two
PlayerDocuments ==
    {Document(PlayerNodes, 1, <<2, 3>>, SomeMatrices(<<BindMatrix(1), BindMatrix(2)>>), anims) :
        anims \in {<<a>> : a \in GltfAnimations}
                     \cup {<<[channels |-> <<SingleKeyframeChannel>>],
                             [channels |-> <<ScaleChannel>>]>>}}

Init == gltf \in PlayerDocuments /\ Start

Next ==
    \/ LoadModel
    \/ Advance
    \/ \E i \in 1..Len(animations) : PressPlay(i)
    \/ \E i \in 1..Len(animations) :
           \E t \in SliderTimes(animations[i]) \cup {animations[i].current_time} :
               ScrubSlider(i, t)
    \/ Render

Spec == Init /\ [][Next]_vars


(***************************************************************************)
(* Keyframe resolution                                                     *)
(***************************************************************************)
\* a frame is rendered with clip a active
Frame(a) ==
    /\ animation_control.mode # "Static"
    /\ animation_control.active_animation = a
    /\ UNCHANGED <<animation_control, now>>
    /\ Render

\* keyframe times in strictly ascending order
Ascending(times) == \A i \in 1..(Len(times) - 1) : RLt(times[i], times[i + 1])

\* t lies in the interval of the keyframes i and i + 1
InInterval(times, t, i) == RLe(times[i], t) /\ RLt(t, times[i + 1])

\* t lies between the first keyframe and the last
InRange(times, t) == Len(times) >= 2 /\ RLe(times[1], t) /\ RLt(t, times[Len(times)])

\* the index of the interval of t
IntervalOf(times, t) == CHOOSE i \in 1..(Len(times) - 1) : InInterval(times, t, i)

\* (t - times[i]) / (times[i + 1] - times[i])
CoeffAt(times, t, i) == RDiv(RSub(t, times[i]), RSub(times[i + 1], times[i]))

\* (1 - c) * a + c * b, component by component
Mix(a, b, c) == [k \in 1..3 |-> RAdd(RMul(RSub(One, c), a[k]), RMul(c, b[k]))]

\* the place among the transforms of a frame of the one of channel k: one
\* is pushed for every channel with a keyframe
PlaceOf(channels, k) == Cardinality({j \in 1..k : channels[j].keyframe_times # <<>>})

\* the vector that a frame that did not panic has pushed for channel k
PushedVec(channels, k, nats, kind) ==
    /\ PlaceOf(channels, k) <= Len(nats)
    /\ nats[PlaceOf(channels, k)].node = channels[k].node
    /\ nats[PlaceOf(channels, k)].transform.kind = kind
    /\ nats[PlaceOf(channels, k)].transform.quat = QuatIdentity

IsVectorChannel(ch) ==
    /\ ch.interpolation_type = "Linear"
    /\ ch.transforms.kind \in {"Translations", "Scales"}

KindOf(ch) ==
    CASE ch.transforms.kind = "Translations" -> "Translation"
      [] ch.transforms.kind = "Scales" -> "Scale"
      [] OTHER -> "Rotation"

IsExample(ch) ==
    /\ ch.keyframe_times = <<F(0), F(1), F(2)>>
    /\ ch.transforms.vecs = <<Vec3(0, 0, 0), Vec3(1, 0, 0), Vec3(1, 1, 0)>>

\* what C5 says of channel ch, the k-th of channels, resolved at t into nats
InterpolatedAt(channels, k, ch, t, nats) ==
    (IsVectorChannel(ch) /\ Ascending(ch.keyframe_times) /\ InRange(ch.keyframe_times, t)) =>
        /\ \E i \in 1..(Len(ch.keyframe_times) - 1) :
               /\ InInterval(ch.keyframe_times, t, i)
               /\ \A j \in 1..(Len(ch.keyframe_times) - 1) :
                      InInterval(ch.keyframe_times, t, j) => j = i
               /\ PushedVec(channels, k, nats, KindOf(ch))
               /\ nats[PlaceOf(channels, k)].transform.vec =
                      Mix(ch.transforms.vecs[i], ch.transforms.vecs[i + 1],
                          CoeffAt(ch.keyframe_times, t, i))
        /\ (IsExample(ch) /\ t = Rat(1, 2)) =>
               nats[PlaceOf(channels, k)].transform.vec = <<Rat(1, 2), F(0), F(0)>>
        /\ (IsExample(ch) /\ t = Rat(3, 2)) =>
               nats[PlaceOf(channels, k)].transform.vec = <<F(1), Rat(1, 2), F(0)>>

\* C5: for a channel with ascending keyframe times and a time t with
\* times[0] <= t < times[last], keyframe resolution selects the unique index
\* i with times[i] <= t < times[i+1], uses the coefficient
\* (t - times[i]) / (times[i+1] - times[i]) and for Translation and Scale
\* returns the component-wise lerp of values[i] and values[i+1]; the times
\* [0,1,2] with the values [(0,0,0),(1,0,0),(1,1,0)] give (0.5,0,0) at 0.5
\* and (1,0.5,0) at 1.5.
C5_Interpolation ==
    [][\A a \in 1..Len(animations) :
          (Frame(a) /\ status' = "loaded") =>
              \A k \in 1..Len(animations'[a].channels) :
                  InterpolatedAt(animations'[a].channels, k, animations'[a].channels[k],
                                 animations'[a].current_time, node_animation_transforms')]_vars

\* the example channel resolved at 1.5 seconds to (1, 0.5, 0)
C5_Witness ==
    /\ status = "loaded"
    /\ animation_control.mode # "Static"
    /\ animations[animation_control.active_animation].current_time = Rat(3, 2)
    /\ IsExample(animations[animation_control.active_animation].channels[1])
    /\ animations[animation_control.active_animation].channels[1].interpolation_type = "Linear"
    /\ node_animation_transforms # <<>>
    /\ node_animation_transforms[1] =
           NodeAnimationTransform(2, Translation(<<F(1), Rat(1, 2), F(0)>>))

\* keyframe times in ascending order
NotDescending(times) == \A i \in 1..(Len(times) - 1) : RLe(times[i], times[i + 1])

\* keyframe i of a channel as it is stored
Stored(ch, i) ==
    CASE ch.transforms.kind = "Translations" -> Translation(ch.transforms.vecs[i])
      [] ch.transforms.kind = "Scales" -> Scale(ch.transforms.vecs[i])
      [] OTHER -> Rotation(ch.transforms.quats[i])

\* the transform pushed for channel k is keyframe i as stored
PushedStored(channels, k, nats, i) ==
    /\ PlaceOf(channels, k) <= Len(nats)
    /\ nats[PlaceOf(channels, k)] =
           NodeAnimationTransform(channels[k].node, Stored(channels[k], i))

\* what C6 says of channel ch, the k-th of channels, resolved at t into nats
ClampedAt(channels, k, ch, t, nats) ==
    (ch.interpolation_type = "Linear" /\ Len(ch.keyframe_times) >= 1
         /\ NotDescending(ch.keyframe_times)) =>
        /\ RLt(t, ch.keyframe_times[1]) => PushedStored(channels, k, nats, 1)
        /\ RLe(ch.keyframe_times[Len(ch.keyframe_times)], t) =>
               PushedStored(channels, k, nats, Len(ch.keyframe_times))

\* C6: for a channel with at least one keyframe (of the supported, linear
\* mode: C8 has the others), resolving at a time before the first keyframe
\* time returns the first keyframe value unchanged, and resolving at a time
\* at or after the last keyframe time returns the last keyframe value
\* unchanged; nothing is extrapolated.
C6_Clamping ==
    [][\A a \in 1..Len(animations) :
          (Frame(a) /\ status' = "loaded") =>
              \A k \in 1..Len(animations'[a].channels) :
                  ClampedAt(animations'[a].channels, k, animations'[a].channels[k],
                            animations'[a].current_time, node_animation_transforms')]_vars

\* at half a second the single keyframe is past and the scales have not
\* begun: the frame holds the last value of the one and the first of the other
C6_Witness ==
    /\ status = "loaded"
    /\ animation_control.mode # "Static"
    /\ animations[animation_control.active_animation].current_time = Rat(1, 2)
    /\ Len(animations[animation_control.active_animation].channels) = 2
    /\ animations[animation_control.active_animation].channels[1].keyframe_times = <<Rat(1, 2)>>
    /\ animations[animation_control.active_animation].channels[2].keyframe_times = <<F(1), F(2)>>
    /\ node_animation_transforms =
           <<NodeAnimationTransform(3, Translation(Vec3(0, 0, 2))),
             NodeAnimationTransform(3, Scale(Vec3(1, 1, 1)))>>


IsRotationChannel(ch) ==
    /\ ch.interpolation_type = "Linear"
    /\ ch.transforms.kind = "Rotations"

\* the rotation that a frame that did not panic has pushed for channel k
PushedRotation(channels, k, nats, q) ==
    /\ PlaceOf(channels, k) <= Len(nats)
    /\ nats[PlaceOf(channels, k)] = NodeAnimationTransform(channels[k].node, Rotation(q))

\* normalize(slerp(-start, end, c)) when negated, normalize(slerp(start,
\* end, c)) otherwise
ShortestSlerp(negated, start, end, c) ==
    IF negated THEN QuatNormalize(QuatSlerp(QuatNeg(start), end, c))
    ELSE QuatNormalize(QuatSlerp(start, end, c))

\* start is negated when the dot product is negative, and only then
NegatedBelowZero(channels, k, nats, start, end, c) ==
    PushedRotation(channels, k, nats,
                   ShortestSlerp(RLt(QuatDot(start, end), Zero), start, end, c))

\* start is used as it is when the dot product is positive, and only then
NegatedUpToZero(channels, k, nats, start, end, c) ==
    PushedRotation(channels, k, nats,
                   ShortestSlerp(~RGt(QuatDot(start, end), Zero), start, end, c))

\* the keyframes around t, normalized
StartAt(ch, t) == QuatNormalize(ch.transforms.quats[IntervalOf(ch.keyframe_times, t)])

EndAt(ch, t) == QuatNormalize(ch.transforms.quats[IntervalOf(ch.keyframe_times, t) + 1])

Interpolates(ch, t) ==
    IsRotationChannel(ch) /\ Ascending(ch.keyframe_times) /\ InRange(ch.keyframe_times, t)

\* C7 as it is stated: in rotation interpolation the start quaternion is
\* negated before the slerp if and only if dot(normalize(start),
\* normalize(end)) < 0; for every pair with dot >= 0, dot = 0 included, start
\* is used unnegated; the result at coeff c is normalize(slerp(-start, end,
\* c)) in the negative case and normalize(slerp(start, end, c)) otherwise.
C7_NegatedIffNegativeDot ==
    [][\A a \in 1..Len(animations) :
          (Frame(a) /\ status' = "loaded") =>
              \A k \in 1..Len(animations'[a].channels) :
                  Interpolates(animations'[a].channels[k], animations'[a].current_time) =>
                      NegatedBelowZero(animations'[a].channels, k, node_animation_transforms',
                          StartAt(animations'[a].channels[k], animations'[a].current_time),
                          EndAt(animations'[a].channels[k], animations'[a].current_time),
                          CoeffAt(animations'[a].channels[k].keyframe_times,
                                  animations'[a].current_time,
                                  IntervalOf(animations'[a].channels[k].keyframe_times,
                                             animations'[a].current_time)))]_vars

\* C7 amended: the start quaternion is used unnegated if and only if
\* dot(normalize(start), normalize(end)) > 0; for every other pair, dot = 0
\* included, it is negated before the slerp; the result at coeff c is
\* normalize(slerp(start, end, c)) in the positive case and
\* normalize(slerp(-start, end, c)) otherwise.
C7_UnnegatedIffPositiveDot ==
    [][\A a \in 1..Len(animations) :
          (Frame(a) /\ status' = "loaded") =>
              \A k \in 1..Len(animations'[a].channels) :
                  Interpolates(animations'[a].channels[k], animations'[a].current_time) =>
                      NegatedUpToZero(animations'[a].channels, k, node_animation_transforms',
                          StartAt(animations'[a].channels[k], animations'[a].current_time),
                          EndAt(animations'[a].channels[k], animations'[a].current_time),
                          CoeffAt(animations'[a].channels[k].keyframe_times,
                                  animations'[a].current_time,
                                  IntervalOf(animations'[a].channels[k].keyframe_times,
                                             animations'[a].current_time)))]_vars

\* a frame half way between two rotations a quarter turn apart (dot = 0):
\* the slerp starts from the negated start
C7_Witness ==
    /\ status = "loaded"
    /\ animation_control.mode # "Static"
    /\ animations[animation_control.active_animation].current_time = F(1)
    /\ IsRotationChannel(animations[animation_control.active_animation].channels[1])
    /\ animations[animation_control.active_animation].channels[1].transforms.quats =
           <<QuatXYZW(0, 0, 0, 1), QuatXYZW(1, 0, 0, 0)>>
    /\ node_animation_transforms =
           <<NodeAnimationTransform(3,
                 Rotation(QuatNormalize(QuatSlerp(QuatXYZW(0, 0, 0, -1), QuatXYZW(1, 0, 0, 0),
                                                  Rat(1, 2)))))>>

\* a channel of an unsupported mode that the keyframe loop resolves
Unsupported(ch) ==
    /\ ch.interpolation_type \in {"Step", "CubicSpline"}
    /\ ch.keyframe_times # <<>>

\* channel k is the first unsupported channel of the clip
FirstUnsupported(channels, k) ==
    /\ Unsupported(channels[k])
    /\ \A j \in 1..(k - 1) : ~Unsupported(channels[j])

\* C8: resolving a channel whose interpolation mode is Step or CubicSpline,
\* at any time and on the fixed-keyframe path as on the interpolated one,
\* never returns a transform computed as if the mode were linear: the frame
\* fails with the unsupported-feature panic, nothing is pushed for the
\* channel and no joint transform is overwritten.
C8_UnsupportedModesFail ==
    [][\A a \in 1..Len(animations) :
          Frame(a) =>
              \A k \in 1..Len(animations[a].channels) :
                  FirstUnsupported(animations[a].channels, k) =>
                      /\ status' = "panic"
                      /\ joints' = joints
                      /\ joint_matrices' = joint_matrices
                      /\ Len(node_animation_transforms') = PlaceOf(animations[a].channels, k) - 1]_vars

\* a frame that failed at a Step or CubicSpline channel after it had resolved
\* a linear one
C8_Witness ==
    /\ status = "panic"
    /\ animation_control.mode # "Static"
    /\ Len(animations[animation_control.active_animation].channels) = 2
    /\ FirstUnsupported(animations[animation_control.active_animation].channels, 2)
    /\ Len(node_animation_transforms) = 1

(***************************************************************************)
(* Playback control                                                        *)
(***************************************************************************)
\* C10: pressing Play on clip i while the playback state is Static or
\* Controllable, whatever its active clip, moves the state to Loop with the
\* active clip i and the start time the reading of the clock.
C10_PlayStartsLoop ==
    [][\A i \in 1..Len(animations) :
          (PressPlay(i) /\ animation_control.mode \in {"Static", "Controllable"}) =>
              animation_control' =
                  [mode |-> "Loop", active_animation |-> i, start_time |-> now]]_vars

\* the second clip looping from the present reading of the clock, past zero
C10_Witness ==
    /\ animation_control.mode = "Loop"
    /\ animation_control.active_animation = 2
    /\ animation_control.start_time = now
    /\ now > 0


(***************************************************************************)
(* Decoding of rotations                                                   *)
(***************************************************************************)
IntegerEncodings == {"I8", "U8", "I16", "U16"}

Signed(encoding) == encoding \in {"I8", "I16"}

\* the largest value of the integer type of an encoding
MaxOf(encoding) ==
    CASE encoding = "I8" -> 127
      [] encoding = "U8" -> 255
      [] encoding = "I16" -> 32767
      [] OTHER -> 65535

\* the least value of the integer type of an encoding
MinOf(encoding) == IF Signed(encoding) THEN -MaxOf(encoding) - 1 ELSE 0

\* the documents of the decoding checks: one rotation keyframe of node 3,
\* its first component any value of the integer type of the encoding, the
\* others zero, the largest value and the least
DecodeDocument(encoding, c) ==
    Document(PlayerNodes, 1, <<2, 3>>, SomeMatrices(<<BindMatrix(1), BindMatrix(2)>>),
             <<[channels |-> <<GltfChannel(3, <<F(0)>>, "Rotations", encoding,
                                           <<<<c, 0, MaxOf(encoding), MinOf(encoding)>>>>,
                                           "Linear")>>]>>)

InitDecode ==
    /\ \E encoding \in IntegerEncodings :
           \E c \in MinOf(encoding)..MaxOf(encoding) : gltf = DecodeDocument(encoding, c)
    /\ Start

NextDecode == LoadModel

SpecDecode == InitDecode /\ [][NextDecode]_vars

\* v is c / m (its denominator divides m, and its numerator times the
\* quotient is c), or -1 when c / m is less and the type is signed
DecodedAs(v, c, m, signed) ==
    IF signed /\ c < -m THEN v = F(-1)
    ELSE v[2] > 0 /\ m % v[2] = 0 /\ v[1] * (m \div v[2]) = c

\* what C9 says of the component c of an encoding decoded as v
DecodedRight(encoding, c, v) ==
    /\ DecodedAs(v, c, MaxOf(encoding), Signed(encoding))
    /\ RLe(F(-1), v) /\ RLe(v, F(1))
    /\ (Signed(encoding) /\ c = MinOf(encoding)) => v = F(-1)
    /\ (encoding = "U16" /\ c = 65535) => v = F(1)
    /\ c = 0 => v = F(0)

\* C9: for every encoded rotation component c in the range of its integer
\* type, decode_rotations yields max(c/127, -1) for signed 8-bit, c/255 for
\* unsigned 8-bit, max(c/32767, -1) for signed 16-bit and c/65535 for
\* unsigned 16-bit; every decoded component lies in [-1, 1], the most
\* negative signed value decodes to exactly -1, unsigned 16-bit 65535 decodes
\* to 1 and 0 decodes to 0.
C9_DecodeRotations ==
    (status = "loaded" /\ gltf.animations # <<>>
         /\ gltf.animations[1].channels[1].outputs.encoding \in IntegerEncodings) =>
        \A k \in 1..4 :
            DecodedRight(gltf.animations[1].channels[1].outputs.encoding,
                         gltf.animations[1].channels[1].outputs.data[1][k],
                         animations[1].channels[1].transforms.quats[1].num[k])

\* the least signed 16-bit value, decoded to -1
C9_Witness ==
    /\ status = "loaded"
    /\ gltf.animations # <<>>
    /\ gltf.animations[1].channels[1].outputs.encoding = "I16"
    /\ gltf.animations[1].channels[1].outputs.data[1][1] = -32768
    /\ animations[1].channels[1].transforms.quats[1].num[1] = F(-1)


\* C11: pressing Play while the playback state is Loop with the active clip
\* a moves the state to Controllable with the same active clip a, whichever
\* clip's Play button was pressed.
C11_PauseKeepsClip ==
    [][\A i \in 1..Len(animations) :
          (PressPlay(i) /\ animation_control.mode = "Loop") =>
              animation_control' =
                  [mode |-> "Controllable",
                   active_animation |-> animation_control.active_animation,
                   start_time |-> 0]]_vars

\* C12: scrubbing the time slider of clip i while the playback state is
\* Static, Controllable or Loop moves the state to Controllable with the
\* active clip i; scrubbing never leads to Loop or Static.
C12_ScrubMakesControllable ==
    [][\A i \in 1..Len(animations) :
          (\E t \in SliderTimes(animations[i]) \cup {animations[i].current_time} :
               ScrubSlider(i, t)) =>
              animation_control' =
                  [mode |-> "Controllable", active_animation |-> i, start_time |-> 0]]_vars

\* the second clip scrubbed to its end while the clock has run
C12_Witness ==
    /\ status = "loaded"
    /\ animation_control = [mode |-> "Controllable", active_animation |-> 2, start_time |-> 0]
    /\ animations[2].current_time = animations[2].end_time
    /\ now > 0


(***************************************************************************)
(* gui.rs: the joints window                                               *)
(***************************************************************************)
\* the rotation show_joint_transforms writes back on every display:
\* Quat::from_axis_angle of the axis and the angle of the rotation, the
\* angle clamped to 0.1..=359.9 degrees; writing back what was written back
\* gives the same axis and angle
through_axis_angle(rotation) ==
    IF rotation.op = "from_axis_angle" THEN rotation
    ELSE Term("from_axis_angle", <<rotation>>, <<>>)

\* the values the drag fields of the joints window are dragged to
DraggedTranslations == {Vec3(0, 0, 3)}

DraggedScales == {Vec3(2, 2, 2)}

\* show_joint_transforms on joint j, its header open: the translation and
\* the scale are left or dragged to new values, the rotation is written back
ShowJointTransforms(j, translation, scale) ==
    /\ status = "loaded"
    /\ j \in 1..Len(joints)
    /\ joints' = [joints EXCEPT
                     ![j].transform = [translation |-> translation,
                                       rotation |-> through_axis_angle(@.rotation),
                                       scale |-> scale]]
    /\ UNCHANGED <<gltf, status, animations, animation_control,
                   node_animation_transforms, joint_matrices, world_transforms, uniform_buffer,
                   debug_joints, frame_steps, now>>

\* the joints window with the header of one joint open
JointsWindow ==
    \E j \in 1..Len(joints) :
        \E translation \in DraggedTranslations \cup {joints[j].transform.translation} :
            \E scale \in DraggedScales \cup {joints[j].transform.scale} :
                ShowJointTransforms(j, translation, scale)

\* the document of the joints window checks: one clip of a single keyframe
\* on node 3
EditDocuments ==
    {Document(PlayerNodes, 1, <<2, 3>>, SomeMatrices(<<BindMatrix(1), BindMatrix(2)>>),
              <<[channels |-> <<SingleKeyframeChannel>>]>>)}

InitEdit == gltf \in EditDocuments /\ Start

NextEdit ==
    \/ LoadModel
    \/ \E i \in 1..Len(animations) : PressPlay(i)
    \/ \E i \in 1..Len(animations) :
           \E t \in SliderTimes(animations[i]) \cup {animations[i].current_time} :
               ScrubSlider(i, t)
    \/ Render
    \/ JointsWindow

SpecEdit == InitEdit /\ [][NextEdit]_vars

\* C13: right after the joints window has shown (and possibly edited) the
\* authored transform of a joint, the playback state is Static
C13_EditForcesStatic ==
    [][JointsWindow => animation_control'.mode = "Static"]_vars


(***************************************************************************)
(* The frame tick                                                          *)
(***************************************************************************)
\* C14: a frame never changes the playback control nor the number of clips;
\* it leaves the current time of every clip as it was when the control is
\* Static or Controllable, and of every clip but the active one when looping
C14_FrameKeepsControl ==
    [][Render =>
          /\ animation_control' = animation_control
          /\ Len(animations') = Len(animations)
          /\ \A k \in 1..Len(animations) :
                 (animation_control.mode # "Loop" \/ k # animation_control.active_animation)
                     => animations'[k].current_time = animations[k].current_time]_vars

\* a frame has been rendered with the first of two clips looping for a
\* tick: its time is the time since the start, the other clip keeps the
\* time it was loaded with
C14_Witness ==
    /\ status = "loaded"
    /\ Len(animations) = 2
    /\ animation_control.mode = "Loop"
    /\ animation_control.active_animation = 1
    /\ now = animation_control.start_time + 1
    /\ node_animation_transforms # <<>>
    /\ animations[1].current_time = as_secs_f32(1)
    /\ animations[2].current_time = InitialCurrentTime


(***************************************************************************)
(* Looping                                                                 *)
(***************************************************************************)
MaxElapsed == 10

\* time passes while a clip loops: Instant::now() reads one tick more
Elapse ==
    /\ now < MaxElapsed
    /\ now' = now + 1
    /\ UNCHANGED <<gltf, status, joints, animations, animation_control,
                   node_animation_transforms, joint_matrices, world_transforms, uniform_buffer,
                   debug_joints, frame_steps>>

\* a single keyframe at the start: a clip of length zero
StartKeyframeChannel ==
    GltfChannel(3, <<F(0)>>, "Translations", "F32", <<Vec3(0, 0, 2)>>, "Linear")

\* the documents of the looping checks: clips of 2 seconds, of half a second
\* and of no length
LoopDocuments ==
    {Document(PlayerNodes, 1, <<2, 3>>, SomeMatrices(<<BindMatrix(1), BindMatrix(2)>>),
              <<[channels |-> <<c>>]>>) :
        c \in {TranslationChannel("Linear"), SingleKeyframeChannel, StartKeyframeChannel}}

InitLoop == gltf \in LoopDocuments /\ Start

NextLoop ==
    \/ LoadModel
    \/ Elapse
    \/ \E i \in 1..Len(animations) : PressPlay(i)
    \/ Render

SpecLoop == InitLoop /\ [][NextLoop]_vars

\* elapsed mod end_time: what is left of elapsed once the whole lengths of
\* the clip that fit in it are taken away; not a number for a clip of no
\* length
Remainder(elapsed, end_time) ==
    IF end_time = F(0) THEN NaN
    ELSE CHOOSE r \in {RSub(elapsed, RMul(F(q), end_time)) : q \in 0..(2 * MaxElapsed)} :
             RLe(F(0), r) /\ RLt(r, end_time)

\* C15: a frame rendered while clip a loops sets its current time to the
\* time elapsed since the loop started when that is at most the end time of
\* the clip, and to elapsed mod end_time when it is more
C15_LoopWraps ==
    [][\A a \in 1..Len(animations) :
          (/\ animation_control.mode = "Loop"
           /\ animation_control.active_animation = a
           /\ Render)
              => LET elapsed == Rat(now - animation_control.start_time, 2)
                     end_time == animations[a].end_time
                 IN  animations'[a].current_time =
                         IF RLe(elapsed, end_time) THEN elapsed
                         ELSE Remainder(elapsed, end_time)]_vars

\* the example: a clip of 2 seconds, looping for 5 seconds, is rendered at 1
\* second
C15_Witness ==
    /\ status = "loaded"
    /\ animation_control.mode = "Loop"
    /\ now - animation_control.start_time = 10
    /\ animations[1].end_time = F(2)
    /\ animations[1].current_time = F(1)
    /\ node_animation_transforms # <<>>


(***************************************************************************)
(* The animated transforms of the joints                                   *)
(***************************************************************************)
\* a frame is rendered to its end
FrameRendered ==
    /\ status = "loaded"
    /\ status' = "loaded"
    /\ UNCHANGED <<gltf, animation_control, now>>
    /\ Render

\* a component of a local transform, and the value of an AnimationTransform
ComponentOf(transform, kind) ==
    CASE kind = "Translation" -> [vec |-> transform.translation, quat |-> QuatIdentity]
      [] kind = "Rotation" -> [vec |-> Vec3(0, 0, 0), quat |-> transform.rotation]
      [] OTHER -> [vec |-> transform.scale, quat |-> QuatIdentity]

ValueOf(animation_transform) ==
    [vec |-> animation_transform.vec, quat |-> animation_transform.quat]

\* the resolved channels of the frame that target the node of joint j with a
\* component of the given kind
Matching(nats, j, kind) ==
    {n \in 1..Len(nats) : nats[n].node = joints[j].node_index /\ nats[n].transform.kind = kind}

\* C16: a frame overwrites, in the local transform of every joint, exactly
\* the components for which a channel targeting the node of the joint was
\* resolved, with the resolved value; every other component, and the rest
\* of the joint, is left as it was, and the cascade runs on the overwritten
\* transforms; with the control Static no joint is changed
C16_ChannelsOverwriteComponents ==
    [][FrameRendered =>
          /\ Len(joints') = Len(joints)
          /\ \A j \in 1..Len(joints) :
                 /\ joints'[j] = [joints[j] EXCEPT !.transform = joints'[j].transform]
                 /\ \A kind \in {"Translation", "Rotation", "Scale"} :
                        IF Matching(node_animation_transforms', j, kind) = {}
                        THEN ComponentOf(joints'[j].transform, kind) =
                                 ComponentOf(joints[j].transform, kind)
                        ELSE \A n \in Matching(node_animation_transforms', j, kind) :
                                 ComponentOf(joints'[j].transform, kind) =
                                     ValueOf(node_animation_transforms'[n].transform)
                 /\ joints[j].parent = None =>
                        world_transforms'[j] =
                            MatMul(skinning_transform(gltf, gltf.skin_node),
                                   matrix(joints'[j].transform))
          /\ animation_control.mode = "Static" => joints' = joints]_vars

\* a frame at a second and a half of the clip that moves node 2 and scales
\* node 3: the first joint has the resolved translation and its own scale,
\* the second the resolved scale and its own translation
C16_Witness ==
    /\ status = "loaded"
    /\ animation_control.mode # "Static"
    /\ Len(node_animation_transforms) = 2
    /\ node_animation_transforms[1] =
           NodeAnimationTransform(2, Translation(<<F(1), Rat(1, 2), F(0)>>))
    /\ node_animation_transforms[2] =
           NodeAnimationTransform(3, Scale(<<Rat(3, 2), F(2), F(1)>>))
    /\ joints[1].transform.translation = <<F(1), Rat(1, 2), F(0)>>
    /\ joints[1].transform.scale = Vec3(1, 1, 1)
    /\ joints[2].transform.scale = <<Rat(3, 2), F(2), F(1)>>
    /\ joints[2].transform.translation = Vec3(0, 1, 0)
    /\ Len(world_transforms) = 2


(***************************************************************************)
(* The joint matrices of the renderer, shared by the models of the scene   *)
(***************************************************************************)
\* the models of the scene of the joint matrix checks: a chain of
\* MaxSkinNodes nodes with the skin on its first node, and every set of
\* joints, listed in increasing order
BufferDocuments ==
    {Document([k \in 1..MaxSkinNodes |->
                  LET t == NodeTransforms[(k % Len(NodeTransforms)) + 1]
                  IN  Node(k - 1, t.translation, t.rotation, t.scale)],
              1, ji, SomeMatrices([k \in 1..Len(ji) |-> BindMatrix(k)]), <<>>) :
        ji \in {SortedSeq(S) : S \in SUBSET (1..MaxSkinNodes)}}

\* the model selected, built being what Joints::from_gltf made of its skin
\* when the scene was loaded
selected(doc, built) ==
    /\ ~built.panic
    /\ gltf' = doc
    /\ joints' = built.joints
    /\ animations' = <<>>
    /\ animation_control' = Static

\* gui_side_panel: the button of another model of the scene is clicked.  The
\* models have no animation: the selected one is as Model::from_gltf left it
SelectModel(doc) ==
    /\ status = "loaded"
    /\ selected(doc, Joints_from_gltf(doc))
    /\ UNCHANGED <<status, node_animation_transforms, joint_matrices, world_transforms,
                   uniform_buffer,
                   debug_joints, frame_steps, now>>

InitBuffer == gltf \in BufferDocuments /\ Start

NextBuffer ==
    \/ LoadModel
    \/ \E doc \in BufferDocuments : SelectModel(doc)
    \/ Render

SpecBuffer == InitBuffer /\ [][NextBuffer]_vars

\* C17: after every frame the joint matrices of the renderer are those of
\* the joints of the model just rendered, one per joint in array order:
\* world transform times inverse bind matrix, whatever the vector held
C17_OneMatrixPerJoint ==
    [][Render =>
          /\ Len(joint_matrices') = Len(joints')
          /\ \A i \in 1..Len(joints') :
                 joint_matrices'[i] =
                     MatMul(world_transforms'[i], joints'[i].inverse_bind_matrix)]_vars

\* a model whose skin has a single joint has been rendered: the vector
\* holds the one matrix of that joint
C17_Witness ==
    /\ status = "loaded"
    /\ Len(gltf.joint_indices) > 0
    /\ Len(joints) = 1
    /\ Len(world_transforms) = 1
    /\ joint_matrices = <<MatMul(world_transforms[1], joints[1].inverse_bind_matrix)>>


(***************************************************************************)
(* The upload of the joint matrices                                        *)
(***************************************************************************)
MaxOver == 1

\* the numbers of joints of the skins of the upload checks: a few, the
\* maximum, and MaxOver more than the maximum
UploadSizes == 1..4 \cup {MAX_JOINT_TRANSFORMS, MAX_JOINT_TRANSFORMS + MaxOver}

\* the children a joint of the upload checks has at most
Fan == 2

\* a scene of n + 1 nodes: the first carries the skin, the second is the
\* root joint, the others are joints too, Fan children to a joint as long as
\* there are nodes; every joint has the inverse bind matrix of the skin
UploadDocument(n) ==
    Document([k \in 1..(n + 1) |->
                 Node(IF k < 3 THEN k - 1 ELSE 2 + ((k - 3) \div Fan),
                      Vec3(0, 0, 0), QuatIdentity, Vec3(1, 1, 1))],
             1, [k \in 1..n |-> k + 1],
             SomeMatrices([k \in 1..n |-> BindMatrix(n % 7)]), <<>>)

\* the button of the model with a skin of n joints is clicked
SelectUpload(n) == SelectModel(UploadDocument(n))

InitUpload == (\E n \in UploadSizes : gltf = UploadDocument(n)) /\ Start

NextUpload ==
    \/ LoadModel
    \/ \E n \in UploadSizes : SelectUpload(n)
    \/ Render

SpecUpload == InitUpload /\ [][NextUpload]_vars

\* C18: a frame of a skin of more than MAX_JOINT_TRANSFORMS joints fails
\* and writes nothing to the uniform buffer; a frame of a skin of at most
\* that many joints writes the matrices of all its joints, in array order
C18_UploadAllOrNothing ==
    [][Render =>
          IF Len(joints) > MAX_JOINT_TRANSFORMS
          THEN status' = "panic" /\ uniform_buffer' = uniform_buffer
          ELSE /\ status' = "loaded"
               /\ Len(uniform_buffer') >= Len(joints)
               /\ \A i \in 1..Len(joints) :
                      uniform_buffer'[i] =
                          MatMul(world_transforms'[i], joints'[i].inverse_bind_matrix)]_vars

\* the frame of a skin of one joint too many has failed, the uniform buffer
\* holding the matrices of a skin of exactly the maximum written in full
\* by an earlier frame
C18_Witness ==
    /\ status = "panic"
    /\ Len(joints) = MAX_JOINT_TRANSFORMS + 1
    /\ Len(uniform_buffer) = MAX_JOINT_TRANSFORMS
    /\ uniform_buffer[MAX_JOINT_TRANSFORMS] = BindMatrix(MAX_JOINT_TRANSFORMS % 7)


(***************************************************************************)
(* Root joints                                                             *)
(***************************************************************************)
\* the joints with no parent
RootJoints == {j \in 1..Len(joints) : joints[j].parent = None}

\* C19: the traversal stops once the subtree of the first joint found with
\* no carried parent is done: a loaded skin has at most one joint whose
\* parent is None
C19_AtMostOneRootJoint == status = "loaded" => Cardinality(RootJoints) <= 1


(***************************************************************************)
(* Skins without inverse bind matrices                                     *)
(***************************************************************************)
\* C20: a skin of at least one joint that has no inverse bind matrices is
\* loaded, and every joint made of it has the identity for its inverse bind
\* matrix
C20_IdentityWithoutMatrices ==
    (/\ status # "start"
     /\ ~gltf.inverse_bind_matrices.some
     /\ Len(gltf.joint_indices) >= 1)
        => /\ status = "loaded"
           /\ joints # <<>>
           /\ \A j \in 1..Len(joints) : joints[j].inverse_bind_matrix = MatIdentity


(***************************************************************************)
(* Inverse bind matrices follow the skin's joint list                      *)
(***************************************************************************)
\* the place of joint j's node in the joint list the skin declares
SkinPosition(j) == Position(gltf.joint_indices, joints[j].node_index)

\* C21: in a model loaded from a skin with inverse bind matrices, every
\* joint's inverse bind matrix is the skin's matrix at the place where the
\* joint's node index occurs in the skin's declared joint list, wherever the
\* joint stands in the traversal-ordered array
C21_MatrixByDeclaredPosition ==
    (status = "loaded" /\ gltf.inverse_bind_matrices.some) =>
        \A j \in 1..Len(joints) :
            /\ SkinPosition(j) \in 1..Len(gltf.joint_indices)
            /\ gltf.joint_indices[SkinPosition(j)] = joints[j].node_index
            /\ joints[j].inverse_bind_matrix = BindMatrix(SkinPosition(j))

\* C21 witness: a loaded skin with matrices where some joint stands at one
\* place of the array and at another place of the skin's joint list
C21_Witness ==
    /\ status = "loaded"
    /\ gltf.inverse_bind_matrices.some
    /\ \E j \in 1..Len(joints) : SkinPosition(j) # j

(***************************************************************************)
(* The end time of a clip                                                  *)
(***************************************************************************)
MaxChannels == 2

MaxKeyframes == 2

\* keyframe times of a sampler input: seconds from the start of the clip
KeyframeTimes == {F(0), Rat(1, 2), F(1), F(2)}

\* the increasing sequences of at most n keyframe times
RECURSIVE IncreasingTimes(_)
IncreasingTimes(n) ==
    IF n = 0 THEN {<<>>}
    ELSE LET shorter == IncreasingTimes(n - 1)
         IN  shorter \cup
                 {Append(p[1], p[2]) :
                     p \in {q \in {x \in shorter : Len(x) = n - 1} \X KeyframeTimes :
                               q[1] = <<>> \/ RLt(q[1][Len(q[1])], q[2])}}

\* translations of node 2 at the times ts
TimedChannel(ts) ==
    GltfChannel(2, ts, "Translations", "F32", [k \in 1..Len(ts) |-> Vec3(k, 0, 0)], "Linear")

\* the clips of at most n channels
RECURSIVE Clips(_)
Clips(n) ==
    IF n = 0 THEN {<<>>}
    ELSE LET shorter == Clips(n - 1)
         IN  shorter \cup {Append(cs, TimedChannel(ts)) :
                               cs \in {x \in shorter : Len(x) = n - 1},
                               ts \in IncreasingTimes(MaxKeyframes)}

ClipDocuments ==
    {Document(PlayerNodes, 1, <<2, 3>>, SomeMatrices(<<BindMatrix(1), BindMatrix(2)>>),
              <<[channels |-> cs]>>) : cs \in Clips(MaxChannels)}

InitClips == gltf \in ClipDocuments /\ Start

NextClips == LoadModel

SpecClips == InitClips /\ [][NextClips]_vars

\* the last keyframe times of the channels of clip i that have keyframes
LastTimes(i) ==
    {animations[i].channels[c].keyframe_times[Len(animations[i].channels[c].keyframe_times)] :
        c \in {d \in 1..Len(animations[i].channels) :
                  animations[i].channels[d].keyframe_times # <<>>}}

\* C22: the end time of every loaded clip is the greatest of the last keyframe
\* times of its channels, and 0 when the clip has no channel (or none with a
\* keyframe)
C22_EndTimeIsLatestKeyframe ==
    status = "loaded" =>
        \A i \in 1..Len(animations) :
            IF LastTimes(i) = {} THEN animations[i].end_time = Zero
            ELSE /\ animations[i].end_time \in LastTimes(i)
                 /\ \A t \in LastTimes(i) : RLe(t, animations[i].end_time)

\* C22 witness: a loaded clip of two channels, the first ending later than
\* the second
C22_Witness ==
    /\ status = "loaded"
    /\ Len(animations) = 1
    /\ Len(animations[1].channels) = 2
    /\ animations[1].channels[1].keyframe_times # <<>>
    /\ animations[1].channels[2].keyframe_times # <<>>
    /\ RLt(LastOrZero(animations[1].channels[2].keyframe_times),
           LastOrZero(animations[1].channels[1].keyframe_times))
    /\ animations[1].end_time = LastOrZero(animations[1].channels[1].keyframe_times)

(***************************************************************************)
(* The order of the steps of a frame                                       *)
(***************************************************************************)
\* gui_side_panel: the "Debug joints" button is clicked
ToggleDebugJoints ==
    /\ status = "loaded"
    /\ debug_joints' = ~debug_joints
    /\ UNCHANGED <<gltf, status, joints, animations, animation_control,
                   node_animation_transforms, joint_matrices, world_transforms,
                   uniform_buffer, frame_steps, now>>

\* a document like doc with the skin on skin_node, meshes giving the
\* primitives of the mesh of each node that has one
MeshDocument(doc, skin_node, meshes) ==
    [scenes |-> doc.scenes, nodes |-> doc.nodes, skin_node |-> skin_node,
     joint_indices |-> doc.joint_indices,
     inverse_bind_matrices |-> doc.inverse_bind_matrices,
     animations |-> doc.animations, meshes |-> meshes]

\* a chain of three nodes with the skin on the first or the second, meshes
\* on any of them, and one clip, of a supported interpolation or not
FrameDocuments ==
    {MeshDocument(Document(PlayerNodes, 1, <<2, 3>>,
                           SomeMatrices(<<BindMatrix(1), BindMatrix(2)>>),
                           <<[channels |-> <<c>>]>>),
                  skin_node, meshes) :
        c \in {TranslationChannel("Linear"), TranslationChannel("Step")},
        skin_node \in {1, 2},
        meshes \in {[k \in S |-> <<Triangles>>] : S \in SUBSET (1..Len(PlayerNodes))}}

InitFrame == gltf \in FrameDocuments /\ Start

NextFrame ==
    \/ LoadModel
    \/ \E i \in 1..Len(animations) : PressPlay(i)
    \/ ToggleDebugJoints
    \/ Render

SpecFrame == InitFrame /\ [][NextFrame]_vars

\* the place of a step in the order of the animation and skinning steps;
\* the draw calls come last
Rank(step) ==
    CASE step.call = "resolve_time" -> 1
      [] step.call = "interpolate" -> 2
      [] step.call = "apply_joint_transforms" -> 3
      [] step.call = "cascade" -> 4
      [] step.call = "update" -> 5
      [] OTHER -> 6

IsDrawCall(step) == step.call \in {"DrawArrays", "DrawElements"}

\* node k is the skinned node or a node below it
UnderSkin(k) == k = gltf.skin_node \/ gltf.skin_node \in Ancestors(gltf, k)

\* C23 as stated: in a frame rendered to its end, every animation and
\* skinning step ran before every draw call
C23_StepsBeforeEveryDraw ==
    status = "loaded" =>
        \A i, j \in 1..Len(frame_steps) :
            (IsDrawCall(frame_steps[i]) /\ ~IsDrawCall(frame_steps[j])) => j < i

\* the animation and skinning steps among steps are in the order resolve
\* time, interpolate, rewrite local transforms, cascade, upload of the skin
\* matrices; the first two come before every draw call, and the upload comes
\* before the mesh of the skinned node and the meshes below it are drawn
StepsInOrder(steps) ==
    /\ \A i, j \in 1..Len(steps) :
           (i < j /\ ~IsDrawCall(steps[i]) /\ ~IsDrawCall(steps[j]))
               => Rank(steps[i]) < Rank(steps[j])
    /\ \A i, j \in 1..Len(steps) :
           (IsDrawCall(steps[i]) /\ Rank(steps[j]) <= 2) => j < i
    /\ \A i \in 1..Len(steps) :
           (steps[i].call = "DrawElements" /\ UnderSkin(steps[i].node))
               => \E j \in 1..(i - 1) : steps[j].call = "update"

\* C23: in a frame rendered to its end the animation and skinning steps run
\* in the order resolve time, interpolate, rewrite local transforms, cascade,
\* upload of the skin matrices, all five of them when a clip is active; the
\* first two run before every draw call, and all run before the mesh of the
\* skinned node and the meshes below it are drawn
C23_StepsInOrderBeforeSkinnedDraw ==
    [][(Render /\ status' = "loaded") =>
          /\ StepsInOrder(frame_steps')
          /\ animation_control.mode # "Static" =>
                 {Rank(frame_steps'[i]) : i \in 1..Len(frame_steps')} \ {6} = 1..5
          /\ {3, 4, 5} \subseteq {Rank(frame_steps'[i]) : i \in 1..Len(frame_steps')}]_vars

\* C23 witness: a frame of an active clip ran all five steps, drew something
\* before the skin matrices were uploaded and the skinned mesh after
C23_Witness ==
    /\ status = "loaded"
    /\ animation_control.mode # "Static"
    /\ {Rank(frame_steps[i]) : i \in 1..Len(frame_steps)} \ {6} = 1..5
    /\ \E i, j, k \in 1..Len(frame_steps) :
           /\ i < j /\ j < k
           /\ IsDrawCall(frame_steps[i])
           /\ frame_steps[j].call = "update"
           /\ frame_steps[k] = Step("DrawElements", gltf.skin_node)

(***************************************************************************)
(* The way back to Static                                                  *)
(***************************************************************************)
\* the controls of the animation view and of the joints window
NextUser ==
    \/ LoadModel
    \/ \E i \in 1..Len(animations) : PressPlay(i)
    \/ \E i \in 1..Len(animations) :
           \E t \in SliderTimes(animations[i]) \cup {animations[i].current_time} :
               ScrubSlider(i, t)
    \/ JointsWindow

\* the model is loaded and the user keeps using every control
SpecUser ==
    /\ InitEdit
    /\ [][NextUser]_vars
    /\ WF_vars(LoadModel)
    /\ WF_vars(\E i \in 1..Len(animations) : PressPlay(i))
    /\ WF_vars(\E i \in 1..Len(animations) :
                   \E t \in SliderTimes(animations[i]) \cup {animations[i].current_time} :
                       ScrubSlider(i, t))
    /\ WF_vars(JointsWindow)

\* C24: the playback states are connected in both directions by the user's
\* actions: a state that is Controllable or Loop is followed by Static again
\* when the user keeps using every control
C24_StaticReachableAgain ==
    [](animation_control.mode # "Static" => <>(animation_control.mode = "Static"))

\* no step of the program takes the playback state from Controllable or Loop
\* to Static
NoReturnToStatic ==
    [][animation_control.mode # "Static" => animation_control'.mode # "Static"]_vars

\* Controllable and Loop are both reached from Static
ReachedFromStatic(mode) == status = "loaded" /\ animation_control.mode = mode

(***************************************************************************)
(* Malformed assets                                                        *)
(***************************************************************************)
\* the primitives of the load checks: well-formed, of another topology,
\* without positions, indices or normals, with two sets of texture
\* coordinates, with joint weights as floats or as normalized bytes
LoadPrimitives ==
    {Triangles,
     GltfPrimitive("Lines", TRUE, TRUE, TRUE, 1, "None"),
     GltfPrimitive("Triangles", FALSE, TRUE, TRUE, 1, "None"),
     GltfPrimitive("Triangles", TRUE, FALSE, TRUE, 1, "None"),
     GltfPrimitive("Triangles", TRUE, TRUE, FALSE, 1, "None"),
     GltfPrimitive("Triangles", TRUE, TRUE, TRUE, 2, "None"),
     GltfPrimitive("Triangles", TRUE, TRUE, TRUE, 0, "F32"),
     GltfPrimitive("Triangles", TRUE, TRUE, TRUE, 1, "U8")}

\* no mesh (the empty list), or a mesh of one primitive, or of a well-formed
\* primitive and another after it
LoadMeshes ==
    {<<>>} \cup {<<p>> : p \in LoadPrimitives} \cup {<<Triangles, p>> : p \in LoadPrimitives}

\* the documents of the load checks: a chain of three nodes with any mesh on
\* each, the skin on the first or the last node with its inverse bind
\* matrices or without, in a file of no, one or two scenes
LoadDocuments ==
    {[MeshDocument(Document(PlayerNodes, 1, <<2, 3>>,
                            IF ibm THEN SomeMatrices(<<BindMatrix(1), BindMatrix(2)>>)
                            ELSE NoMatrices,
                            <<>>),
                   skin_node,
                   [k \in {n \in 1..Len(PlayerNodes) : ms[n] # <<>>} |-> ms[k]])
         EXCEPT !.scenes = scenes] :
        ms \in [1..Len(PlayerNodes) -> LoadMeshes],
        skin_node \in {1, Len(PlayerNodes)},
        ibm \in BOOLEAN,
        scenes \in 0..2}

InitLoad == gltf \in LoadDocuments /\ Start

NextLoad == LoadModel

SpecLoad == InitLoad /\ [][NextLoad]_vars

\* a primitive Primitive::from_gltf must refuse
Malformed(primitive) ==
    \/ primitive.mode # "Triangles"
    \/ ~primitive.positions
    \/ ~primitive.indices
    \/ ~primitive.normals

MalformedDocument(doc) ==
    doc.scenes # 1 \/ \E k \in DOMAIN doc.meshes :
                          \E i \in 1..Len(doc.meshes[k]) : Malformed(doc.meshes[k][i])

\* C25: the load of a document that has not exactly one scene, or that has
\* anywhere in its node tree a primitive of a topology other than triangles
\* or without positions, indices or normals, returns an error and leaves no
\* model
C25_MalformedAssetFailsLoad ==
    (status # "start" /\ MalformedDocument(gltf)) =>
        (status = "error" /\ joints = <<>> /\ animations = <<>>)

\* the load of such a document never leaves a model, whether it returns an
\* error or panics
NoPartialModel ==
    (status # "start" /\ MalformedDocument(gltf)) =>
        (status \in {"error", "panic"} /\ joints = <<>> /\ animations = <<>>)

\* C26: a document with a primitive of more than one set of texture
\* coordinates never loads successfully
C26_SecondTexCoordSetIsAnError ==
    status = "loaded" =>
        \A k \in DOMAIN gltf.meshes :
            \A i \in 1..Len(gltf.meshes[k]) : gltf.meshes[k][i].tex_coords <= 1

(***************************************************************************)
(* Errors and the viewer process                                           *)
(***************************************************************************)
\* C27: no error of a load or of a frame's animation step (an interpolation
\* mode that is not supported, more joints than MAX_JOINT_TRANSFORMS, a
\* failed lookup of an inverse bind matrix) terminates the viewer process
C27_ErrorsAreRecoverable == status # "panic"

(***************************************************************************)
(* The active clip                                                         *)
(***************************************************************************)
\* C28: in every state reached from a freshly loaded model by Play presses,
\* slider scrubs and frames, a playback state that is Loop or Controllable
\* names a clip of the model: its index is within the list of clips, so a
\* frame never indexes the list out of range
C28_ActiveClipInRange ==
    (status # "start" /\ animation_control.mode # "Static") =>
        animation_control.active_animation \in 1..Len(animations)

\* C28 witness: the last of two clips is looping and a frame has been
\* rendered with it
C28_Witness ==
    /\ status = "loaded"
    /\ Len(animations) = 2
    /\ animation_control.mode = "Loop"
    /\ animation_control.active_animation = Len(animations)
    /\ node_animation_transforms # <<>>

(***************************************************************************)
(* The current time of a looping clip                                      *)
(***************************************************************************)
\* C29: after every frame rendered while clip a loops, the current time of
\* the clip is a defined value from 0 to the end time of the clip, also for
\* a clip whose end time is 0
C29_LoopTimeWithinClip ==
    [][\A a \in 1..Len(animations) :
          (/\ animation_control.mode = "Loop"
           /\ animation_control.active_animation = a
           /\ Render)
              => /\ ~IsNaN(animations'[a].current_time)
                 /\ RLe(F(0), animations'[a].current_time)
                 /\ RLe(animations'[a].current_time, animations'[a].end_time)]_vars

(***************************************************************************)
(* One transform for every channel                                         *)
(***************************************************************************)
\* a channel whose accessors are empty: no keyframe
EmptyChannel == GltfChannel(2, <<>>, "Translations", "F32", <<>>, "Linear")

\* the channels of the clips: three, two or one keyframe, the first of them
\* at the start of the clip or later, or no keyframe at all
ClipChannels ==
    {TranslationChannel("Linear"), ScaleChannel, StartKeyframeChannel, EmptyChannel,
     RotationChannel("F32", <<<<F(0), F(0), F(0), F(1)>>, <<F(1), F(0), F(0), F(0)>>>>,
                     "Linear")}

\* documents of one clip, of no, one or two channels
ChannelDocuments ==
    {Document(PlayerNodes, 1, <<2, 3>>, SomeMatrices(<<BindMatrix(1), BindMatrix(2)>>),
              <<[channels |-> cs]>>) :
        cs \in {<<>>} \cup {<<c>> : c \in ClipChannels}
                  \cup {<<c, d>> : c \in ClipChannels, d \in ClipChannels}}

InitChannels == gltf \in ChannelDocuments /\ Start

NextChannels ==
    \/ LoadModel
    \/ Advance
    \/ \E i \in 1..Len(animations) : PressPlay(i)
    \/ \E i \in 1..Len(animations) :
           \E t \in SliderTimes(animations[i]) \cup {animations[i].current_time} :
               ScrubSlider(i, t)
    \/ Render

SpecChannels == InitChannels /\ [][NextChannels]_vars

\* the channels with a keyframe
WithKeyframes(channels) == {k \in 1..Len(channels) : channels[k].keyframe_times # <<>>}

\* the coefficient of channel ch at time t is at least 0 and less than 1 when
\* the keyframe loop interpolates
CoefficientInRange(ch, t) ==
    keyframe_loop(ch, t, 1).interpolated =>
        /\ RLe(F(0), keyframe_loop(ch, t, 1).coeff)
        /\ RLt(keyframe_loop(ch, t, 1).coeff, F(1))

\* C30: in every frame rendered with an active clip, whatever its current
\* time, every channel of the clip with a keyframe has exactly one transform
\* among those of the frame, for its target node, a channel without
\* keyframes has none, and a coefficient handed to the interpolation is at
\* least 0 and less than 1
C30_OneTransformPerChannel ==
    [][\A a \in 1..Len(animations) :
          (Frame(a) /\ status' = "loaded") =>
              /\ Len(node_animation_transforms') =
                     Cardinality(WithKeyframes(animations'[a].channels))
              /\ \A k \in WithKeyframes(animations'[a].channels) :
                     node_animation_transforms'[PlaceOf(animations'[a].channels, k)].node =
                         animations'[a].channels[k].node
              /\ \A k \in 1..Len(animations'[a].channels) :
                     CoefficientInRange(animations'[a].channels[k],
                                        animations'[a].current_time)]_vars

\* C30 witness: a frame half a second into a clip of the three translations
\* and a channel without keyframes: one transform, interpolated half way
C30_Witness ==
    /\ status = "loaded"
    /\ animation_control.mode # "Static"
    /\ Len(animations[1].channels) = 2
    /\ animations[1].channels[1].keyframe_times = <<F(0), F(1), F(2)>>
    /\ animations[1].channels[2].keyframe_times = <<>>
    /\ animations[1].current_time = Rat(1, 2)
    /\ keyframe_loop(animations[1].channels[1], Rat(1, 2), 1).interpolated
    /\ keyframe_loop(animations[1].channels[1], Rat(1, 2), 1).coeff = Rat(1, 2)
    /\ node_animation_transforms =
           <<NodeAnimationTransform(2, Translation(<<Rat(1, 2), F(0), F(0)>>))>>
====
